---- MODULE Spec2Model ----
(***************************************************************************)
(* Verification model of the HubSpot membership invoicing Lambda:          *)
(* the pricing modules (src/pricing/*.js), the invoice helpers             *)
(* (src/hubspot/invoices.js), the S3 state helpers (src/utils/storage.js)  *)
(* and the batch handler (src/index.js).                                   *)
(*                                                                         *)
(* JavaScript strings are modelled as sequences of one-character strings,  *)
(* so that trim, toUpperCase, split and parseFloat are computed character  *)
(* by character.  Money is held in cents (Scale units per dollar); the     *)
(* labels of the input pools carry at most two fractional digits.          *)
(***************************************************************************)
EXTENDS Integers, Sequences, FiniteSets, TLC

(***************************************************************************)
(* JavaScript values                                                       *)
(***************************************************************************)
\* A property that is absent from a CRM record (undefined) or null.
UndefinedValue == <<"undefined">>
NullValue == <<"null">>

\* Number of model units in one dollar.
Scale == 10 * 10

\* x || '' for a string-valued property.
OrEmpty(v) == IF v \in {UndefinedValue, NullValue, <<>>} THEN <<>> ELSE v

\* x || d for a number (0, NaN and undefined are falsy; undefined is read as 0).
OrDefault(v, d) == IF v = 0 THEN d ELSE v

LowerLetters ==
    <<"a","b","c","d","e","f","g","h","i","j","k","l","m",
      "n","o","p","q","r","s","t","u","v","w","x","y","z">>

UpperLetters ==
    <<"A","B","C","D","E","F","G","H","I","J","K","L","M",
      "N","O","P","Q","R","S","T","U","V","W","X","Y","Z">>

Digits == <<"0","1","2","3","4","5","6","7","8","9">>

UpperChar(c) ==
    IF \E i \in 1..26 : LowerLetters[i] = c
    THEN UpperLetters[CHOOSE i \in 1..26 : LowerLetters[i] = c]
    ELSE c

\* String.prototype.toUpperCase
toUpperCase(s) == [i \in 1..Len(s) |-> UpperChar(s[i])]

IsSpace(c) == c \in {" ", "\t", "\n"}

RECURSIVE trimStart(_)
trimStart(s) ==
    IF s # <<>> /\ IsSpace(Head(s)) THEN trimStart(Tail(s)) ELSE s

RECURSIVE trimEnd(_)
trimEnd(s) ==
    IF s # <<>> /\ IsSpace(s[Len(s)]) THEN trimEnd(SubSeq(s, 1, Len(s) - 1)) ELSE s

\* String.prototype.trim
trim(s) == trimEnd(trimStart(s))

\* String.prototype.split(sep) for a one-character separator.
RECURSIVE split(_, _)
split(s, sep) ==
    IF \E i \in 1..Len(s) : s[i] = sep
    THEN LET i == CHOOSE k \in 1..Len(s) : s[k] = sep /\ \A j \in 1..(k - 1) : s[j] # sep
         IN  <<SubSeq(s, 1, i - 1)>> \o split(SubSeq(s, i + 1, Len(s)), sep)
    ELSE <<s>>

\* Array.prototype.filter(Boolean) on an array of strings: drops ''.
filterBoolean(xs) == SelectSeq(xs, LAMBDA x : x # <<>>)

\* String.prototype.replace(/[$,]/g, '')
RECURSIVE stripDollarComma(_)
stripDollarComma(s) ==
    IF s = <<>> THEN <<>>
    ELSE IF Head(s) \in {"$", ","} THEN stripDollarComma(Tail(s))
    ELSE <<Head(s)>> \o stripDollarComma(Tail(s))

IsDigit(c) == \E i \in 1..10 : Digits[i] = c

DigitValue(c) == (CHOOSE i \in 1..10 : Digits[i] = c) - 1

RECURSIVE digitPrefix(_)
digitPrefix(s) ==
    IF s # <<>> /\ IsDigit(Head(s)) THEN <<Head(s)>> \o digitPrefix(Tail(s)) ELSE <<>>

RECURSIVE digitsToInt(_)
digitsToInt(ds) ==
    IF ds = <<>> THEN 0
    ELSE 10 * digitsToInt(SubSeq(ds, 1, Len(ds) - 1)) + DigitValue(ds[Len(ds)])

\* Not-a-number.
NaN == [nan |-> TRUE, value |-> 0]

\* The global parseFloat: leading whitespace, an optional sign, decimal digits,
\* an optional fraction; parsing stops at the first other character; NaN when
\* no digit was read.  The value is in model units (two fractional digits).
parseFloat(s) ==
    LET t      == trimStart(s)
        neg    == t # <<>> /\ Head(t) = "-"
        u      == IF t # <<>> /\ Head(t) \in {"-", "+"} THEN Tail(t) ELSE t
        ip     == digitPrefix(u)
        rest   == SubSeq(u, Len(ip) + 1, Len(u))
        fp     == IF rest # <<>> /\ Head(rest) = "." THEN digitPrefix(Tail(rest)) ELSE <<>>
        f1     == IF Len(fp) >= 1 THEN DigitValue(fp[1]) ELSE 0
        f2     == IF Len(fp) >= 2 THEN DigitValue(fp[2]) ELSE 0
        mag    == digitsToInt(ip) * Scale + 10 * f1 + f2
    IN  IF ip = <<>> /\ fp = <<>> THEN NaN
        ELSE [nan |-> FALSE, value |-> IF neg THEN 0 - mag ELSE mag]

(***************************************************************************)
(* Territory normalisation (src/pricing/distributor.js)                    *)
(***************************************************************************)
stateMap ==
    {
       <<<<"A","L","A","B","A","M","A">>, <<"A","L">>>>,
       <<<<"A","L","A","S","K","A">>, <<"A","K">>>>,
       <<<<"A","R","I","Z","O","N","A">>, <<"A","Z">>>>,
       <<<<"A","R","K","A","N","S","A","S">>, <<"A","R">>>>,
       <<<<"C","A","L","I","F","O","R","N","I","A">>, <<"C","A">>>>,
       <<<<"C","O","L","O","R","A","D","O">>, <<"C","O">>>>,
       <<<<"C","O","N","N","E","C","T","I","C","U","T">>, <<"C","T">>>>,
       <<<<"D","E","L","A","W","A","R","E">>, <<"D","E">>>>,
       <<<<"F","L","O","R","I","D","A">>, <<"F","L">>>>,
       <<<<"G","E","O","R","G","I","A">>, <<"G","A">>>>,
       <<<<"H","A","W","A","I","I">>, <<"H","I">>>>,
       <<<<"I","D","A","H","O">>, <<"I","D">>>>,
       <<<<"I","L","L","I","N","O","I","S">>, <<"I","L">>>>,
       <<<<"I","N","D","I","A","N","A">>, <<"I","N">>>>,
       <<<<"I","O","W","A">>, <<"I","A">>>>,
       <<<<"K","A","N","S","A","S">>, <<"K","S">>>>,
       <<<<"K","E","N","T","U","C","K","Y">>, <<"K","Y">>>>,
       <<<<"L","O","U","I","S","I","A","N","A">>, <<"L","A">>>>,
       <<<<"M","A","I","N","E">>, <<"M","E">>>>,
       <<<<"M","A","R","Y","L","A","N","D">>, <<"M","D">>>>,
       <<<<"M","A","S","S","A","C","H","U","S","E","T","T","S">>, <<"M","A">>>>,
       <<<<"M","I","C","H","I","G","A","N">>, <<"M","I">>>>,
       <<<<"M","I","N","N","E","S","O","T","A">>, <<"M","N">>>>,
       <<<<"M","I","S","S","I","S","S","I","P","P","I">>, <<"M","S">>>>,
       <<<<"M","I","S","S","O","U","R","I">>, <<"M","O">>>>,
       <<<<"M","O","N","T","A","N","A">>, <<"M","T">>>>,
       <<<<"N","E","B","R","A","S","K","A">>, <<"N","E">>>>,
       <<<<"N","E","V","A","D","A">>, <<"N","V">>>>,
       <<<<"N","E","W"," ","H","A","M","P","S","H","I","R","E">>, <<"N","H">>>>,
       <<<<"N","E","W"," ","J","E","R","S","E","Y">>, <<"N","J">>>>,
       <<<<"N","E","W"," ","M","E","X","I","C","O">>, <<"N","M">>>>,
       <<<<"N","E","W"," ","Y","O","R","K">>, <<"N","Y">>>>,
       <<<<"N","O","R","T","H"," ","C","A","R","O","L","I","N","A">>, <<"N","C">>>>,
       <<<<"N","O","R","T","H"," ","D","A","K","O","T","A">>, <<"N","D">>>>,
       <<<<"O","H","I","O">>, <<"O","H">>>>,
       <<<<"O","K","L","A","H","O","M","A">>, <<"O","K">>>>,
       <<<<"O","R","E","G","O","N">>, <<"O","R">>>>,
       <<<<"P","E","N","N","S","Y","L","V","A","N","I","A">>, <<"P","A">>>>,
       <<<<"R","H","O","D","E"," ","I","S","L","A","N","D">>, <<"R","I">>>>,
       <<<<"S","O","U","T","H"," ","C","A","R","O","L","I","N","A">>, <<"S","C">>>>,
       <<<<"S","O","U","T","H"," ","D","A","K","O","T","A">>, <<"S","D">>>>,
       <<<<"T","E","N","N","E","S","S","E","E">>, <<"T","N">>>>,
       <<<<"T","E","X","A","S">>, <<"T","X">>>>,
       <<<<"U","T","A","H">>, <<"U","T">>>>,
       <<<<"V","E","R","M","O","N","T">>, <<"V","T">>>>,
       <<<<"V","I","R","G","I","N","I","A">>, <<"V","A">>>>,
       <<<<"W","A","S","H","I","N","G","T","O","N">>, <<"W","A">>>>,
       <<<<"W","E","S","T"," ","V","I","R","G","I","N","I","A">>, <<"W","V">>>>,
       <<<<"W","I","S","C","O","N","S","I","N">>, <<"W","I">>>>,
       <<<<"W","Y","O","M","I","N","G">>, <<"W","Y">>>>,
       <<<<"A","L","B","E","R","T","A">>, <<"A","B">>>>,
       <<<<"B","R","I","T","I","S","H"," ","C","O","L","U","M","B","I","A">>, <<"B","C">>>>,
       <<<<"M","A","N","I","T","O","B","A">>, <<"M","B">>>>,
       <<<<"N","E","W"," ","B","R","U","N","S","W","I","C","K">>, <<"N","B">>>>,
       <<<<"N","E","W","F","O","U","N","D","L","A","N","D"," ","A","N","D"," ","L","A","B","R","A","D","O","R">>, <<"N","L">>>>,
       <<<<"N","O","R","T","H","W","E","S","T"," ","T","E","R","R","I","T","O","R","I","E","S">>, <<"N","T">>>>,
       <<<<"N","O","V","A"," ","S","C","O","T","I","A">>, <<"N","S">>>>,
       <<<<"N","U","N","A","V","U","T">>, <<"N","U">>>>,
       <<<<"O","N","T","A","R","I","O">>, <<"O","N">>>>,
       <<<<"P","R","I","N","C","E"," ","E","D","W","A","R","D"," ","I","S","L","A","N","D">>, <<"P","E">>>>,
       <<<<"Q","U","E","B","E","C">>, <<"Q","C">>>>,
       <<<<"S","A","S","K","A","T","C","H","E","W","A","N">>, <<"S","K">>>>,
       <<<<"Y","U","K","O","N">>, <<"Y","T">>>>
    }

StateMapHas(k) == \E p \in stateMap : p[1] = k

StateMapGet(k) == (CHOOSE p \in stateMap : p[1] = k)[2]

\* Variant: the lookup is done without trimming and upper-casing.
normalizeStateNameExact(stateName) ==
    IF stateName \in {UndefinedValue, NullValue, <<>>} THEN <<>>
    ELSE IF StateMapHas(stateName) THEN StateMapGet(stateName) ELSE stateName

\* normalizeStateName
normalizeStateName(stateName) ==
    IF stateName \in {UndefinedValue, NullValue, <<>>} THEN <<>>
    ELSE LET stateNameUpper == toUpperCase(trim(stateName))
         IN  IF Len(stateNameUpper) = 2 /\ StateMapHas(stateNameUpper)
             THEN stateNameUpper
             ELSE IF StateMapHas(stateNameUpper)
                  THEN StateMapGet(stateNameUpper)
                  ELSE stateNameUpper

\* Variant: the home state is not excluded.
countTerritoriesIncludingHomeState(territoryString, homeState) ==
    IF territoryString \in {UndefinedValue, NullValue, <<>>} THEN 0
    ELSE Len(filterBoolean(split(territoryString, ";")))

\* countTerritoriesExcludingHomeState
countTerritoriesExcludingHomeState(territoryString, homeState) ==
    IF territoryString \in {UndefinedValue, NullValue, <<>>} THEN 0
    ELSE LET territories         == filterBoolean(split(territoryString, ";"))
             normalizedHomeState == normalizeStateName(homeState)
         IN  IF normalizedHomeState = <<>>
             THEN Len(territories)
             ELSE Len(SelectSeq(territories,
                        LAMBDA territory :
                            normalizeStateName(territory) # normalizedHomeState))

(***************************************************************************)
(* Configuration (src/config/index.js)                                     *)
(***************************************************************************)
\* An environment setting that is not set parses to NaN, which is falsy: 0.
Unset == 0

DefaultEnv ==
    [DISTRIBUTOR_BASE_FEE      |-> Unset,
     DISTRIBUTOR_TERRITORY_FEE |-> Unset,
     MANUFACTURER_DEFAULT_FEE  |-> Unset,
     SERVICE_PROVIDER_FLAT_FEE |-> Unset,
     INDIVIDUAL_MEMBERSHIP_FEE |-> Unset,
     HUBSPOT_ASSOCIATION_TYPE_ID_INVOICE_TO_COMPANY |-> Unset,
     HUBSPOT_ASSOCIATION_TYPE_ID_INVOICE_TO_CONTACT |-> Unset,
     ENABLE_ERROR_NOTIFICATIONS    |-> "undefined",
     MAILGUN_API_KEY               |-> "undefined",
     MAILGUN_DOMAIN                |-> "undefined",
     MAILGUN_ERROR_RECIPIENT_EMAIL |-> "undefined"]

\* process.env.X || d for a string setting.
OrString(v, d) == IF v = "undefined" \/ v = "" THEN d ELSE v

\* The config object built from process.env (amounts in model units).
LoadConfig(e) ==
    [DISTRIBUTOR_BASE_FEE      |-> OrDefault(e.DISTRIBUTOR_BASE_FEE, 929 * Scale),
     DISTRIBUTOR_TERRITORY_FEE |-> OrDefault(e.DISTRIBUTOR_TERRITORY_FEE, 70 * Scale),
     MANUFACTURER_DEFAULT_FEE  |-> OrDefault(e.MANUFACTURER_DEFAULT_FEE, 1500 * Scale),
     SERVICE_PROVIDER_FLAT_FEE |-> OrDefault(e.SERVICE_PROVIDER_FLAT_FEE, 1250 * Scale),
     INDIVIDUAL_MEMBERSHIP_FEE |-> OrDefault(e.INDIVIDUAL_MEMBERSHIP_FEE, 349 * Scale),
     HUBSPOT_INVOICE_OBJECT_TYPE_ID                   |-> 1,
     HUBSPOT_ASSOCIATION_TYPE_ID_INVOICE_TO_COMPANY   |-> e.HUBSPOT_ASSOCIATION_TYPE_ID_INVOICE_TO_COMPANY,
     HUBSPOT_ASSOCIATION_TYPE_ID_INVOICE_TO_CONTACT   |-> e.HUBSPOT_ASSOCIATION_TYPE_ID_INVOICE_TO_CONTACT,
     HUBSPOT_ASSOCIATION_TYPE_ID_INVOICE_TO_LINE_ITEM |-> 3,
     ENABLE_REPORT_EMAIL         |-> "true",
     ENABLE_ERROR_NOTIFICATIONS  |-> OrString(e.ENABLE_ERROR_NOTIFICATIONS, "true"),
     MAILGUN_API_KEY               |-> e.MAILGUN_API_KEY,
     MAILGUN_DOMAIN                |-> e.MAILGUN_DOMAIN,
     MAILGUN_ERROR_RECIPIENT_EMAIL |-> e.MAILGUN_ERROR_RECIPIENT_EMAIL,
     MEMBERSHIP_TYPE_DISTRIBUTOR      |-> "Distributor",
     MEMBERSHIP_TYPE_MANUFACTURER     |-> "Manufacturer",
     MEMBERSHIP_TYPE_SERVICE_PROVIDER |-> "Service Provider"]

\* config[key]; a key the config object does not define reads as undefined (falsy).
ConfigGet(cfg, key) == IF key \in DOMAIN cfg THEN cfg[key] ELSE 0

(***************************************************************************)
(* Pricing (src/pricing/distributor.js, manufacturer.js,                   *)
(* serviceProvider.js, individual.js)                                      *)
(***************************************************************************)
NoArg == <<>>

NotSpecified == <<"N","o","t"," ","s","p","e","c","i","f","i","e","d">>

\* A returned price result; warnings are the messages passed to logger.warn.
Priced(total, items) ==
    [ok |-> TRUE, totalPrice |-> total, lineItems |-> items, error |-> "none", warnings |-> {}]

\* A thrown Error.
Thrown(msg) ==
    [ok |-> FALSE, totalPrice |-> 0, lineItems |-> <<>>, error |-> msg, warnings |-> {}]

\* calculateDistributorPrice
calculateDistributorPrice(cfg, membershipProperties) ==
    LET baseFee            == OrDefault(ConfigGet(cfg, "DISTRIBUTOR_BASE_FEE"), 929 * Scale)
        perTerritoryCharge == OrDefault(ConfigGet(cfg, "DISTRIBUTOR_PER_TERRITORY_FEE"), 70 * Scale)
        usStatesString          == OrEmpty(membershipProperties.distributor_us_states)
        canadianProvincesString == OrEmpty(membershipProperties.distributor_canadian_provinces)
        nonNATerritoriesString  == OrEmpty(membershipProperties.distributor_non_na_territories)
        homeState               == OrEmpty(membershipProperties.state)
        usStatesCount          == countTerritoriesExcludingHomeState(usStatesString, homeState)
        canadianProvincesCount == countTerritoriesExcludingHomeState(canadianProvincesString, homeState)
        nonNATerritoriesCount  == countTerritoriesExcludingHomeState(nonNATerritoriesString, homeState)
        totalBillableTerritories == usStatesCount + canadianProvincesCount + nonNATerritoriesCount
        territoriesCharge == totalBillableTerritories * perTerritoryCharge
        totalPrice        == baseFee + territoriesCharge
        lineItems ==
            << [name |-> "Distributor Membership Base Fee", quantity |-> 1, price |-> baseFee,
                description |-> [text |-> "Annual base fee for Distributor Membership.",
                                 arg |-> NoArg],
                productId |-> "2463768667"],
               [name |-> "Home State Listing", quantity |-> 1, price |-> 0,
                description |-> [text |-> "FREE listing in home state of",
                                 arg |-> IF homeState = <<>> THEN NotSpecified ELSE homeState],
                productId |-> "25230586526"] >>
        territoryItem ==
            [name |-> "Additional Territory Listings", quantity |-> totalBillableTerritories,
             price |-> perTerritoryCharge,
             description |-> [text |-> "Charge for territories (home state excluded).",
                              arg |-> NoArg],
             productId |-> "null"]
        warnings ==
            IF normalizeStateName(homeState) = <<>>
               /\ <<usStatesString, canadianProvincesString, nonNATerritoriesString>>
                      # <<NoArg, NoArg, NoArg>>
            THEN {"Could not normalize home state"} ELSE {}
    IN  [Priced(totalPrice,
                IF totalBillableTerritories > 0 THEN Append(lineItems, territoryItem)
                ELSE lineItems) EXCEPT !.warnings = warnings]

\* Variant: the commas are left in the text handed to parseFloat.
parseMembershipLevelPriceKeepCommas(membershipLevelString) ==
    LET beforeParenthesis == trim(split(membershipLevelString, "(")[1])
    IN  parseFloat(SelectSeq(beforeParenthesis, LAMBDA c : c # "$"))

\* parseMembershipLevelPrice
parseMembershipLevelPrice(membershipLevelString) ==
    LET beforeParenthesis == trim(split(membershipLevelString, "(")[1])
        cleanPrice        == stripDollarComma(beforeParenthesis)
    IN  parseFloat(cleanPrice)

\* getManufacturerProductId
getManufacturerProductId(price) ==
    CASE price = 1500 * Scale  -> "2463329893"
      [] price = 3500 * Scale  -> "2463329894"
      [] price = 5000 * Scale  -> "2463329895"
      [] price = 7500 * Scale  -> "2463312808"
      [] price = 10000 * Scale -> "2463329896"
      [] OTHER -> "null"

\* Variant: only a price that does not parse is invalid.
invalidPriceNaNOnly(parsedPrice) == parsedPrice.nan

\* isNaN(parsedPrice) || parsedPrice <= 0
invalidPrice(parsedPrice) == parsedPrice.nan \/ parsedPrice.value <= 0

\* calculateManufacturerPrice
calculateManufacturerPrice(cfg, companyProperties) ==
    LET membershipLevelString == companyProperties.manufacturer_membership_level
    IN  IF \/ membershipLevelString \in {UndefinedValue, NullValue}
           \/ trim(membershipLevelString) = <<>>
        THEN LET defaultPrice == OrDefault(ConfigGet(cfg, "MANUFACTURER_DEFAULT_FEE"), 1500 * Scale)
             IN  [Priced(defaultPrice,
                         << [name |-> "Manufacturer Membership Fee", quantity |-> 1,
                             price |-> defaultPrice,
                             description |->
                                 [text |-> "Default membership fee (membership level property missing).",
                                  arg |-> NoArg],
                             productId |-> getManufacturerProductId(defaultPrice)] >>)
                  EXCEPT !.warnings = {"membership level missing or empty, using default price"}]
        ELSE LET parsedPrice == parseMembershipLevelPrice(membershipLevelString)
             IN  IF invalidPrice(parsedPrice)
                 THEN Thrown("Invalid membership level price")
                 ELSE Priced(parsedPrice.value,
                             << [name |-> "Manufacturer Membership Fee", quantity |-> 1,
                                 price |-> parsedPrice.value,
                                 description |-> [text |-> "", arg |-> membershipLevelString],
                                 productId |-> getManufacturerProductId(parsedPrice.value)] >>)

\* calculateServiceProviderPrice
calculateServiceProviderPrice(cfg, companyProperties) ==
    IF "SERVICE_PROVIDER_FLAT_FEE" \notin DOMAIN cfg
    THEN Thrown("Service Provider flat fee is not configured.")
    ELSE LET flatRate == cfg.SERVICE_PROVIDER_FLAT_FEE
         IN  Priced(flatRate,
                    << [name |-> "Service Provider Membership Fee", quantity |-> 1,
                        price |-> flatRate,
                        description |->
                            [text |-> "Annual flat rate fee for Service Provider Membership.",
                             arg |-> NoArg],
                        productId |-> "2853281631"] >>)

\* calculateIndividualPrice
calculateIndividualPrice(cfg, contactProperties) ==
    LET flatRate == OrDefault(ConfigGet(cfg, "INDIVIDUAL_MEMBERSHIP_FEE"), 349 * Scale)
    IN  Priced(flatRate,
               << [name |-> "Individual Membership Fee", quantity |-> 1, price |-> flatRate,
                   description |-> [text |-> "Annual fee for Individual Membership.",
                                    arg |-> NoArg],
                   productId |-> "2695542944"] >>)

\* Array.prototype.join(sep) on an array of strings.
RECURSIVE join(_, _)
join(xs, sep) ==
    IF xs = <<>> THEN <<>>
    ELSE IF Len(xs) = 1 THEN xs[1]
    ELSE xs[1] \o sep \o join(Tail(xs), sep)

(***************************************************************************)
(* Step C of the handler: the pricing switch and the description           *)
(* enrichment of the Distributor territory line item (src/index.js)        *)
(***************************************************************************)
\* The copy of normalizeStateName that the handler defines inline.
normalizeStateNameInline(stateName) ==
    IF stateName \in {UndefinedValue, NullValue, <<>>} THEN <<>>
    ELSE LET stateNameUpper == toUpperCase(trim(stateName))
         IN  IF Len(stateNameUpper) = 2 /\ StateMapHas(stateNameUpper)
             THEN stateNameUpper
             ELSE IF StateMapHas(stateNameUpper)
                  THEN StateMapGet(stateNameUpper)
                  ELSE stateNameUpper

\* billableTerritoryNames
billableTerritoryNames(properties) ==
    LET allTerritoryNames ==
            filterBoolean(split(OrEmpty(properties.distributor_us_states), ";")
                          \o split(OrEmpty(properties.distributor_canadian_provinces), ";")
                          \o split(OrEmpty(properties.distributor_non_na_territories), ";"))
        homeState == OrEmpty(properties.state)
    IN  SelectSeq(allTerritoryNames,
                  LAMBDA territory :
                      normalizeStateNameInline(territory) # normalizeStateNameInline(homeState))

\* item.name.includes('Territory'), over the names the resolvers produce.
IncludesTerritory(name) == name \in {"Additional Territory Listings"}

\* Variant: the enrichment also rewrites the quantity, from the names it lists
\* before the home state is taken out.
enrichDescriptionAndQuantity(priceResult, properties) ==
    LET allNames == filterBoolean(split(OrEmpty(properties.distributor_us_states), ";")
                          \o split(OrEmpty(properties.distributor_canadian_provinces), ";")
                          \o split(OrEmpty(properties.distributor_non_na_territories), ";"))
        found == {i \in 1..Len(priceResult.lineItems) :
                      IncludesTerritory(priceResult.lineItems[i].name)}
    IN  IF found # {}
        THEN LET i == CHOOSE k \in found : \A j \in found : k <= j
             IN  [priceResult EXCEPT !.lineItems[i].quantity = Len(allNames)]
        ELSE priceResult

\* The enrichment of the territory line item's description.
enrichDescription(priceResult, properties) ==
    LET names == billableTerritoryNames(properties)
        found == {i \in 1..Len(priceResult.lineItems) :
                      IncludesTerritory(priceResult.lineItems[i].name)}
    IN  IF Len(names) > 0 /\ found # {}
        THEN LET i == CHOOSE k \in found : \A j \in found : k <= j
             IN  [priceResult EXCEPT
                     !.lineItems[i].description =
                         [text |-> "For territories: (home state excluded)",
                          arg  |-> join(names, <<",", " ">>)]]
        ELSE priceResult

\* The switch of step C.  memberType is 'Company' or 'Individual'.
priceCalculation(cfg, memberType, properties) ==
    LET companyMembershipType == properties.membership_type
        selector == IF memberType = "Company" THEN companyMembershipType ELSE "Individual"
    IN  CASE selector = cfg.MEMBERSHIP_TYPE_DISTRIBUTOR ->
                 LET priceResult == calculateDistributorPrice(cfg, properties)
                 IN  IF priceResult.ok THEN enrichDescription(priceResult, properties)
                     ELSE priceResult
          [] selector = cfg.MEMBERSHIP_TYPE_MANUFACTURER ->
                 calculateManufacturerPrice(cfg, properties)
          [] selector = cfg.MEMBERSHIP_TYPE_SERVICE_PROVIDER ->
                 calculateServiceProviderPrice(cfg, properties)
          [] selector = "Individual" ->
                 calculateIndividualPrice(cfg, properties)
          [] OTHER -> Thrown("Unknown membership type")

(***************************************************************************)
(* Invoice helpers (src/hubspot/invoices.js)                               *)
(***************************************************************************)
\* A null or undefined record id.
NullId == <<"null">>

NoInvoice == [id |-> "null", status |-> "none", contactId |-> NullId]

\* The statuses that findExistingOpenInvoice treats as open.
openStatuses == {"SENT", "DRAFT", "PROCESSING", "OVERDUE"}

\* The search request that findExistingOpenInvoice builds.  The first filter
\* is added when a contactId is given; it does not carry the contactId.
searchFilters(contactId) ==
    (IF contactId # NullId
     THEN <<[propertyName |-> "hs_object_id", operator |-> "HAS_PROPERTY", values |-> {}]>>
     ELSE <<>>)
    \o <<[propertyName |-> "hs_status", operator |-> "IN", values |-> openStatuses]>>

\* The CRM's evaluation of one search filter on one invoice record.
filterMatches(f, invoice) ==
    CASE f.operator = "HAS_PROPERTY" -> f.propertyName = "hs_object_id"
      [] f.operator = "IN"           -> invoice.status \in f.values
      [] OTHER                       -> FALSE

\* crm.objects.searchApi.doSearch with limit 1; crmInvoices is newest first.
doSearch(filters, invoices) ==
    LET hits == SelectSeq(invoices,
                    LAMBDA inv : \A i \in 1..Len(filters) : filterMatches(filters[i], inv))
    IN  IF hits = <<>> THEN <<>> ELSE <<hits[1]>>

\* Variant: a failed search blocks the member as if an invoice were open.
findExistingOpenInvoiceFailClosed(companyId, contactId, api) ==
    IF companyId = NullId /\ contactId = NullId THEN NoInvoice
    ELSE IF api.error THEN [id |-> "unknown", status |-> "ERROR", contactId |-> contactId]
    ELSE LET results == doSearch(searchFilters(contactId), api.invoices)
         IN  IF Len(results) > 0 THEN results[1] ELSE NoInvoice

\* findExistingOpenInvoice.  api is the outcome of the search call:
\* [error |-> BOOLEAN, invoices |-> the invoice records the CRM holds].
findExistingOpenInvoice(companyId, contactId, api) ==
    IF companyId = NullId /\ contactId = NullId THEN NoInvoice
    ELSE IF api.error THEN NoInvoice
    ELSE LET results == doSearch(searchFilters(contactId), api.invoices)
         IN  IF Len(results) > 0 THEN results[1] ELSE NoInvoice

\* validateInvoiceConfig: the keys that are missing from the configuration.
validateInvoiceConfig(cfg) ==
    {k \in {"HUBSPOT_INVOICE_OBJECT_TYPE_ID",
            "HUBSPOT_ASSOCIATION_TYPE_ID_INVOICE_TO_CONTACT",
            "HUBSPOT_ASSOCIATION_TYPE_ID_INVOICE_TO_COMPANY",
            "HUBSPOT_ASSOCIATION_TYPE_ID_INVOICE_TO_LINE_ITEM"} : ConfigGet(cfg, k) = 0}

\* The points at which a CRM call made by createInvoice can fail.
CreateApiOutcomes ==
    {"ok", "createError", "contactAssociationError", "companyAssociationError",
     "productNotFound", "lineItemError", "updateError"}

\* The number of line items that get created and associated with the invoice.
\* Under "productNotFound" every product-backed line item is skipped.
associatedLineItems(lineItems, api) ==
    Cardinality({i \in 1..Len(lineItems) :
                    ~(api = "productNotFound" /\ lineItems[i].productId # "null")})

\* The status update of STEP 3.
statusUpdate(keepDraft) == [hs_due_date |-> "due", hs_invoice_status |-> "open"]

\* createInvoice.  Returns whether it threw, and the invoice record it left in
\* the CRM (status "none": no record was created).
createInvoice(cfg, invoiceData, api) ==
    LET draft == [status |-> "draft", contact |-> FALSE, company |-> FALSE, lineItems |-> 0]
        withContact == [draft EXCEPT !.contact = invoiceData.contactId # NullId]
        withCompany == [withContact EXCEPT !.company = invoiceData.companyId # NullId]
        withItems   == [withCompany EXCEPT
                           !.lineItems = associatedLineItems(invoiceData.lineItems, api)]
        updated     == [withItems EXCEPT !.status = statusUpdate(invoiceData.keepDraft).hs_invoice_status]
        none        == [draft EXCEPT !.status = "none"]
    IN  IF validateInvoiceConfig(cfg) # {}
        THEN [ok |-> FALSE, error |-> "Missing required configuration", invoice |-> none]
        ELSE IF api = "createError"
        THEN [ok |-> FALSE, error |-> "HubSpot API Error (createInvoice)", invoice |-> none]
        ELSE IF api = "contactAssociationError" /\ invoiceData.contactId # NullId
        THEN [ok |-> FALSE, error |-> "HubSpot API Error (createInvoice)", invoice |-> draft]
        ELSE IF api = "companyAssociationError" /\ invoiceData.companyId # NullId
        THEN [ok |-> FALSE, error |-> "HubSpot API Error (createInvoice)", invoice |-> withContact]
        ELSE IF api = "lineItemError" /\ Len(invoiceData.lineItems) > 0
        THEN [ok |-> FALSE, error |-> "HubSpot API Error (createInvoice)", invoice |-> withCompany]
        ELSE IF invoiceData.contactId = NullId
        THEN [ok |-> FALSE, error |-> "contact association is required", invoice |-> withItems]
        ELSE IF Len(invoiceData.lineItems) = 0
        THEN [ok |-> FALSE, error |-> "at least one line item association is required",
              invoice |-> withItems]
        ELSE IF api = "updateError"
        THEN [ok |-> FALSE, error |-> "HubSpot API Error (createInvoice)", invoice |-> withItems]
        ELSE [ok |-> TRUE, error |-> "none", invoice |-> updated]

(***************************************************************************)
(* Run-state storage (src/utils/storage.js)                                *)
(***************************************************************************)
\* No run-state object is stored under the run date's key.
NoState == [exists |-> FALSE, processedMemberIds |-> <<>>, totalMembers |-> 0,
            isComplete |-> FALSE]

\* storeProcessingState: the object that putObject writes.
stateData(processedMemberIds, options) ==
    [exists |-> TRUE, processedMemberIds |-> processedMemberIds,
     totalMembers |-> options.totalMembers, isComplete |-> options.isComplete]

\* Variant: the delete leaves the stored object in place.
clearProcessingStateKeeps(stored) == stored

\* clearProcessingState on a successful delete or a NoSuchKey error: what S3
\* holds under the key afterwards.
clearProcessingState(stored) == NoState

\* getProcessingState on a successful read or a NoSuchKey error.
getProcessingState(stored) ==
    IF stored.exists THEN stored.processedMemberIds ELSE <<>>

(***************************************************************************)
(* Input pools: CRM property values and environments                       *)
(***************************************************************************)
California == <<"C","a","l","i","f","o","r","n","i","a">>

CaCode == <<"C","A">>

CaPadded == <<" ","c","a"," ">>

CaliforniaPadded == <<" ","c","a","l","i","f","o","r","n","i","a"," ">>

Nevada == <<"N","e","v","a","d","a">>

NvLower == <<"n","v">>

Arizona == <<"A","r","i","z","o","n","a">>

Ontario == <<"O","n","t","a","r","i","o">>

OnCode == <<"O","N">>

Mexico == <<"M","e","x","i","c","o">>

MexicoUpper == <<"M","E","X","I","C","O">>

\* An entry of blanks only, as in "Mexico; ".
Blank == <<" ">>

Amount1500 == <<"1",",","5","0","0">>

Amount5000 == <<"5",",","0","0","0">>

Amount10000 == <<"1","0",",","0","0","0">>

Amount3500 == <<"3","5","0","0">>

Amount1250_50 == <<"1",",","2","5","0",".","5","0">>

AmountZero == <<"0">>

QualifierSmall == <<"<","$","5","M">>

QualifierAnything == <<"a","n","y","t","h","i","n","g">>

QualifierNested == <<"$","1","0","M"," ","(","n","e","t",")"," ","-"," ","$","2","0","M">>

LabelTbd == <<"T","B","D">>

LabelBlank == <<" "," ">>

LabelPlain7500 == <<"7","5","0","0">>

LabelParenOnly == <<"(","5",",","0","0","0",")">>

ScenarioATerritories == <<"C","a","l","i","f","o","r","n","i","a",";","N","e","v","a","d","a",";","A","r","i","z","o","n","a">>

LabelScenarioB == <<"$","1",",","5","0","0"," ","(","<","$","5","M",")">>

LabelFiveThousand == <<"$","5",",","0","0","0"," ","(","a","n","y","t","h","i","n","g",")">>


\* An environment that overrides every fee and sets the association type ids.
CustomEnv ==
    [DISTRIBUTOR_BASE_FEE      |-> 1000 * Scale,
     DISTRIBUTOR_TERRITORY_FEE |-> 85 * Scale,
     MANUFACTURER_DEFAULT_FEE  |-> 2000 * Scale,
     SERVICE_PROVIDER_FLAT_FEE |-> 1300 * Scale,
     INDIVIDUAL_MEMBERSHIP_FEE |-> 400 * Scale,
     HUBSPOT_ASSOCIATION_TYPE_ID_INVOICE_TO_COMPANY |-> 179,
     HUBSPOT_ASSOCIATION_TYPE_ID_INVOICE_TO_CONTACT |-> 177,
     ENABLE_ERROR_NOTIFICATIONS    |-> "true",
     MAILGUN_API_KEY               |-> "key",
     MAILGUN_DOMAIN                |-> "mg.example.org",
     MAILGUN_ERROR_RECIPIENT_EMAIL |-> "ops@example.org"]

\* The production environment: association type ids and mail settings set,
\* fees and switches left to their defaults.
ProdEnv ==
    [DefaultEnv EXCEPT !.HUBSPOT_ASSOCIATION_TYPE_ID_INVOICE_TO_COMPANY = 179,
                       !.HUBSPOT_ASSOCIATION_TYPE_ID_INVOICE_TO_CONTACT = 177,
                       !.MAILGUN_API_KEY = "key",
                       !.MAILGUN_DOMAIN = "mg.example.org",
                       !.MAILGUN_ERROR_RECIPIENT_EMAIL = "ops@example.org"]

\* The production environment with error notifications switched off.
QuietEnv == [ProdEnv EXCEPT !.ENABLE_ERROR_NOTIFICATIONS = "false"]

\* The environments the batch handler is deployed with.
HandlerEnvs == {ProdEnv, QuietEnv, DefaultEnv}

\* Longest territory list drawn for one checkbox property.
MaxEntries == 3

\* All sequences of at most n elements of S.
RECURSIVE SeqsUpTo(_, _)
SeqsUpTo(S, n) ==
    IF n = 0 THEN {<<>>}
    ELSE LET shorter == SeqsUpTo(S, n - 1)
         IN  shorter \cup {Append(s, x) : s \in {t \in shorter : Len(t) = n - 1}, x \in S}

\* Spellings of the home state property.
HomePool == {UndefinedValue, NoArg, California, CaCode, CaliforniaPadded, Mexico}

\* Entries of the US states checkbox property ('' is an empty entry, as in "a;;b").
UsEntryPool == {California, CaPadded, Nevada, NoArg}

UsLists == SeqsUpTo(UsEntryPool, MaxEntries) \cup {<<California, Nevada, Arizona>>}

CanLists == {<<>>, <<OnCode, Ontario>>}

NonNaLists == {<<>>, <<Mexico>>, <<MexicoUpper, CaCode>>, <<Mexico, Blank>>}

\* The value of a checkbox property: its entries separated by ';'; a property
\* without entries is absent from the record.
CheckboxValue(entries) == IF entries = <<>> THEN UndefinedValue ELSE join(entries, <<";">>)

\* Amount texts of membership level labels, with the amount each one writes.
Amounts ==
    {[text |-> Amount1500,    value |-> 1500 * Scale],
     [text |-> Amount3500,    value |-> 3500 * Scale],
     [text |-> Amount5000,    value |-> 5000 * Scale],
     [text |-> Amount10000,   value |-> 10000 * Scale],
     [text |-> Amount1250_50, value |-> 1250 * Scale + 50],
     [text |-> AmountZero,    value |-> 0]}

Qualifiers == {QualifierSmall, QualifierAnything, QualifierNested, NoArg}

\* "$<amount> (<qualifier>)"
DollarLabel(a, q) ==
    [form |-> "dollar", text |-> <<"$">> \o a.text \o <<" ", "(">> \o q \o <<")">>,
     amount |-> a.value]

\* Values of the manufacturer membership level property.
LabelPool ==
    {DollarLabel(a, q) : a \in Amounts, q \in Qualifiers}
    \cup {[form |-> "absent", text |-> UndefinedValue, amount |-> 0],
          [form |-> "null",   text |-> NullValue,      amount |-> 0],
          [form |-> "blank",  text |-> NoArg,          amount |-> 0],
          [form |-> "blank",  text |-> LabelBlank,     amount |-> 0],
          [form |-> "other",  text |-> LabelTbd,       amount |-> 0],
          [form |-> "other",  text |-> LabelParenOnly, amount |-> 0],
          [form |-> "plain",  text |-> LabelPlain7500, amount |-> 7500 * Scale]}

NoLabel == [form |-> "absent", text |-> UndefinedValue, amount |-> 0]

\* The membership records the pricing functions are applied to.
DistributorInputs ==
    {[memberType |-> "Company", membership_type |-> "Distributor", env |-> e,
      home |-> h, us |-> u, can |-> c, nonNa |-> n, label |-> NoLabel] :
        e \in {DefaultEnv, CustomEnv}, h \in HomePool, u \in UsLists,
        c \in CanLists, n \in NonNaLists}

ManufacturerInputs ==
    {[memberType |-> "Company", membership_type |-> "Manufacturer", env |-> e,
      home |-> California, us |-> <<>>, can |-> <<>>, nonNa |-> <<>>, label |-> l] :
        e \in {DefaultEnv, CustomEnv}, l \in LabelPool}

FlatFeeInputs ==
    {[memberType |-> m[1], membership_type |-> m[2], env |-> e,
      home |-> h, us |-> <<>>, can |-> <<>>, nonNa |-> <<>>, label |-> NoLabel] :
        m \in {<<"Company", "Service Provider">>, <<"Individual", "undefined">>,
               <<"Company", "Individual">>, <<"Company", "undefined">>,
               <<"Company", "Associate">>},
        e \in {DefaultEnv, CustomEnv}, h \in {UndefinedValue, California}}

PricingInputs == DistributorInputs \cup ManufacturerInputs \cup FlatFeeInputs

\* The properties object of a membership record.
Properties(in) ==
    [membership_type                |-> in.membership_type,
     state                          |-> in.home,
     distributor_us_states          |-> CheckboxValue(in.us),
     distributor_canadian_provinces |-> CheckboxValue(in.can),
     distributor_non_na_territories |-> CheckboxValue(in.nonNa),
     manufacturer_membership_level  |-> in.label.text]

(***************************************************************************)
(* State                                                                   *)
(***************************************************************************)
VARIABLES
    env,                 \* process.env, as far as the configuration reads it
    pc,                  \* position of the handler in its invocation
    event,               \* the Lambda event
    runState,            \* the run-state object stored in S3 for the run date
    startState,          \* the run-state object S3 held when the handler was invoked
    allMembers,          \* ids of the memberships retrieved (after the limits)
    membersToProcess,    \* ids left after the already-processed filter
    idx,                 \* position of the member loop in membersToProcess
    processedMemberIds,  \* in-memory processed ids
    processedInvoices,   \* success rows of the run summary
    failedInvoices,      \* failure rows of the run summary
    calls,               \* calls made to the CRM, S3, the PDF generator and mail
    faults,              \* environment faults met so far in the invocation
    response,            \* what the handler returned
    pin,                 \* the membership record a pricing function is applied to
    pout                 \* the function applied and what it returned or threw

vars == <<env, pc, event, runState, startState, allMembers, membersToProcess, idx,
          processedMemberIds, processedInvoices, failedInvoices, calls, faults,
          response, pin, pout>>

handlerVars == <<event, runState, startState, allMembers, membersToProcess, idx,
                 processedMemberIds, processedInvoices, failedInvoices, calls,
                 faults, response>>

NoEvent == [dry_run |-> FALSE, pdf_test_limit |-> 0, full_test_limit |-> 0,
            keep_draft |-> FALSE, clear_state |-> FALSE]

NoResponse == [statusCode |-> 0, message |-> "none", error |-> "none",
               processed |-> 0, failed |-> 0]

NoPricing == [fn |-> "none", arg |-> "none", count |-> 0, result |-> Thrown("none")]

(***************************************************************************)
(* The pricing functions applied to one membership record                  *)
(***************************************************************************)
PricingInit ==
    /\ pin \in PricingInputs
    /\ env = pin.env
    /\ pc = "pricing"
    /\ pout = NoPricing
    /\ event = NoEvent
    /\ runState = NoState
    /\ startState = NoState
    /\ allMembers = <<>>
    /\ membersToProcess = <<>>
    /\ idx = 1
    /\ processedMemberIds = <<>>
    /\ processedInvoices = <<>>
    /\ failedInvoices = <<>>
    /\ calls = <<>>
    /\ faults = 0
    /\ response = NoResponse

Apply(fn, result) ==
    /\ pc = "pricing"
    /\ pout' = [NoPricing EXCEPT !.fn = fn, !.result = result]
    /\ pc' = "priced"
    /\ UNCHANGED <<env, pin>>
    /\ UNCHANGED handlerVars

\* countTerritoriesExcludingHomeState on one of the three checkbox properties,
\* called as calculateDistributorPrice calls it.
CountTerritories ==
    /\ pc = "pricing"
    /\ pin.membership_type = "Distributor"
    /\ \E list \in {"distributor_us_states", "distributor_canadian_provinces",
                     "distributor_non_na_territories"} :
           pout' = [NoPricing EXCEPT
                       !.fn = "countTerritoriesExcludingHomeState",
                       !.arg = list,
                       !.count = countTerritoriesExcludingHomeState(
                                     OrEmpty(Properties(pin)[list]),
                                     OrEmpty(Properties(pin).state))]
    /\ pc' = "priced"
    /\ UNCHANGED <<env, pin>>
    /\ UNCHANGED handlerVars

ResolveDistributor ==
    /\ pin.membership_type = "Distributor"
    /\ Apply("calculateDistributorPrice",
             calculateDistributorPrice(LoadConfig(env), Properties(pin)))

ResolveManufacturer ==
    /\ pin.membership_type = "Manufacturer"
    /\ Apply("calculateManufacturerPrice",
             calculateManufacturerPrice(LoadConfig(env), Properties(pin)))

ResolveServiceProvider ==
    /\ pin.membership_type = "Service Provider"
    /\ Apply("calculateServiceProviderPrice",
             calculateServiceProviderPrice(LoadConfig(env), Properties(pin)))

ResolveIndividual ==
    /\ pin.memberType = "Individual"
    /\ Apply("calculateIndividualPrice",
             calculateIndividualPrice(LoadConfig(env), Properties(pin)))

\* Step C of the handler on this record.
PriceCalculationStep ==
    Apply("priceCalculation",
          priceCalculation(LoadConfig(env), pin.memberType, Properties(pin)))

PricingNext ==
    \/ CountTerritories
    \/ ResolveDistributor
    \/ ResolveManufacturer
    \/ ResolveServiceProvider
    \/ ResolveIndividual
    \/ PriceCalculationStep

PricingSpec == PricingInit /\ [][PricingNext]_vars

(***************************************************************************)
(* The batch handler (src/index.js): memberships, events, calls            *)
(***************************************************************************)
\* Successes between two periodic writes of the run state.
PersistEvery == 10

\* The floor below which the member loop stops, in milliseconds.
TimeFloor == 30000

\* The throttle delay between members, in milliseconds.
ThrottleMs == 200

\* Longest list of memberships drawn from the mixed catalogue.
MaxMembers == 2

\* Environment faults (failed calls, open invoices found, missing contacts or
\* payment links) that one invocation meets at most.
MaxFaults == 1

\* Membership ids.
DistId == <<"company", "distributor">>
BadLabelId == <<"company", "manufacturer-tbd">>
UnknownTypeId == <<"company", "associate">>
IndividualId == <<"contact", "individual">>
ProviderId(n) == <<"company", "provider", n>>
ZeroLabelId == <<"company", "manufacturer-zero">>
NoTypeId == <<"company", "no-type">>
IndividualTypeId == <<"company", "individual-type">>

\* The membership records behind the ids, as pricing inputs.
MemberRecord(id) ==
    LET blank == [memberType |-> "Company", membership_type |-> "Service Provider",
                  env |-> ProdEnv, home |-> California, us |-> <<>>, can |-> <<>>,
                  nonNa |-> <<>>, label |-> NoLabel]
    IN  CASE id = DistId ->
                 [blank EXCEPT !.membership_type = "Distributor",
                               !.us = <<California, Nevada, Arizona>>]
          [] id = BadLabelId ->
                 [blank EXCEPT !.membership_type = "Manufacturer",
                               !.label = [form |-> "other", text |-> LabelTbd, amount |-> 0]]
          [] id = UnknownTypeId -> [blank EXCEPT !.membership_type = "Associate"]
          [] id = ZeroLabelId ->
                 [blank EXCEPT !.membership_type = "Manufacturer",
                               !.label = DollarLabel([text |-> AmountZero, value |-> 0],
                                                     QualifierSmall)]
          [] id = NoTypeId -> [blank EXCEPT !.membership_type = "undefined"]
          [] id = IndividualTypeId -> [blank EXCEPT !.membership_type = "Individual"]
          [] id = IndividualId ->
                 [blank EXCEPT !.memberType = "Individual", !.membership_type = "undefined"]
          [] OTHER -> blank

\* Results of getExpiringCompanyMemberships: companies in query order.
CompanyCatalogue == <<DistId, BadLabelId, UnknownTypeId>>

\* Companies with a label or a membership type that step C does not expect,
\* one of them in a query result.
OddOnes == {<<id>> : id \in {ZeroLabelId, NoTypeId, IndividualTypeId}}

\* All subsequences of a sequence.
RECURSIVE SubSeqs(_)
SubSeqs(s) ==
    IF s = <<>> THEN {<<>>}
    ELSE LET rest == SubSeqs(Tail(s))
         IN  rest \cup {<<Head(s)>> \o r : r \in rest}

\* A run of service providers long enough to reach a periodic state write and
\* go one member past it.
LongList == [n \in 1..(PersistEvery + 1) |-> ProviderId(n)]

\* The lists the two retrieval queries can return together: companies first,
\* then individuals.
RetrievedLists ==
    {c \o i : c \in SubSeqs(CompanyCatalogue) \cup OddOnes, i \in {<<>>, <<IndividualId>>}}

MemberLists == {l \in RetrievedLists : Len(l) <= MaxMembers} \cup {LongList}

\* The lists retrieved under an environment: the long list is retrieved in
\* the production environment only, and single memberships where the error
\* notifications are switched off.
MemberListsIn(e) ==
    {l \in MemberLists : /\ Len(l) > MaxMembers => e = ProdEnv
                         /\ Len(l) > 1 => e # QuietEnv}

\* Lambda events.
Events ==
    [dry_run : BOOLEAN, pdf_test_limit : {0, 1}, full_test_limit : {0, 1},
     keep_draft : BOOLEAN, clear_state : BOOLEAN]

\* Run-state objects that earlier invocations of the run date can have left.
StoredStates ==
    {NoState, stateData(<<DistId>>, [totalMembers |-> 2, isComplete |-> FALSE])}

isDryRun == event.dry_run = TRUE

testLimit == event.pdf_test_limit

fullTestLimit == event.full_test_limit

keepDraft == event.keep_draft = TRUE

clearState == event.clear_state = TRUE

\* Variant: every run that is not a dry run tracks the run state.
useStateTrackingUnlessDryRun == ~isDryRun

\* !isDryRun && !testLimit && !fullTestLimit
useStateTracking == ~isDryRun /\ testLimit = 0 /\ fullTestLimit = 0

\* Variant: only the PDF test mode leaves the CRM alone.
skipCrmWritesInPdfTest == testLimit # 0

\* isDryRun || testLimit
skipCrmWrites == isDryRun \/ testLimit # 0

\* Variant: the slice keeps one member more than the limit.
applyLimitPlusOne(members, limit) ==
    IF limit # 0 /\ Len(members) > limit + 1 THEN SubSeq(members, 1, limit + 1) ELSE members

\* allMembers.slice(0, limit) under `limit && allMembers.length > limit`.
applyLimit(members, limit) ==
    IF limit # 0 /\ Len(members) > limit THEN SubSeq(members, 1, limit) ELSE members

\* Variant: the filter keeps every member.
filterNothing(members, processedIds) == members

\* allMembers.filter(member => !processedMemberIds.includes(member.data.id))
filterProcessed(members, processedIds) ==
    SelectSeq(members, LAMBDA id : \A k \in 1..Len(processedIds) : processedIds[k] # id)

\* One call made by the handler: which service, which operation, for which
\* membership ("run": for the invocation as a whole), and what it carried.
Call(api, op, entity, detail) ==
    [api |-> api, op |-> op, entity |-> entity, detail |-> detail,
     amount |-> 0, lineItems |-> <<>>, keepDraft |-> FALSE, owner |-> NullId,
     membership |-> NullId,
     invoice |-> [status |-> "none", contact |-> FALSE, company |-> FALSE, lineItems |-> 0]]

Run == <<"run">>

(***************************************************************************)
(* The batch handler: invocation, retrieval, state management, reporting   *)
(***************************************************************************)
Init ==
    /\ env \in HandlerEnvs
    /\ pc = "idle"
    /\ event = NoEvent
    /\ runState \in StoredStates
    /\ startState = runState
    /\ allMembers = <<>>
    /\ membersToProcess = <<>>
    /\ idx = 1
    /\ processedMemberIds = <<>>
    /\ processedInvoices = <<>>
    /\ failedInvoices = <<>>
    /\ calls = <<>>
    /\ faults = 0
    /\ response = NoResponse
    /\ pin = MemberRecord(ProviderId(1))
    /\ pout = NoPricing

\* The Lambda is invoked with an event.
Invoke ==
    /\ pc = "idle"
    /\ event' \in Events
    /\ pc' = "retrieve"
    /\ startState' = runState
    /\ UNCHANGED <<env, runState, allMembers, membersToProcess, idx, processedMemberIds,
                   processedInvoices, failedInvoices, calls, faults, response, pin, pout>>

\* Variant: the error is logged only.
logErrorOnly(cfg, message) == <<>>

\* sendErrorNotification: the mail handed to Mailgun, if any.  A failure of
\* the delivery is logged and swallowed.
sendErrorNotification(cfg, message) ==
    IF cfg.ENABLE_ERROR_NOTIFICATIONS # "true" THEN <<>>
    ELSE IF \/ cfg.MAILGUN_API_KEY = "undefined"
            \/ cfg.MAILGUN_DOMAIN = "undefined"
            \/ cfg.MAILGUN_ERROR_RECIPIENT_EMAIL = "undefined"
    THEN <<>>
    ELSE <<Call("mail", "sendErrorNotification", Run, message)>>

\* The catch block of the handler: the error is logged, the operator is
\* notified when notifications are enabled, and 500 is returned.
Critical(made, message) ==
    /\ calls' = calls \o made \o
                (IF LoadConfig(env).ENABLE_ERROR_NOTIFICATIONS = "true"
                 THEN sendErrorNotification(LoadConfig(env), message) ELSE <<>>)
    /\ response' = [statusCode |-> 500, message |-> "Critical error", error |-> message,
                    processed |-> 0, failed |-> 0]
    /\ pc' = "done"

\* A normal return of the handler.
Return(message) ==
    /\ response' = [statusCode |-> 200, message |-> message, error |-> "none",
                    processed |-> Len(processedInvoices), failed |-> Len(failedInvoices)]
    /\ pc' = "done"

\* The calls of the client initialization and of 1. DATA RETRIEVAL: the
\* company query, then the individual query; the first error ends them.
retrievalCalls(outcome, enrichment) ==
    IF outcome = "clientError"
    THEN <<Call("crm", "getClient", Run, "error")>>
    ELSE <<Call("crm", "getClient", Run, "ok")>>
         \o (IF outcome = "companiesError"
             THEN <<Call("crm", "getExpiringCompanyMemberships", Run, "error")>>
             ELSE <<Call("crm", "getExpiringCompanyMemberships", Run, "ok")>>
                  \o enrichment
                  \o <<Call("crm", "getExpiringIndividualMemberships", Run,
                            IF outcome = "individualsError" THEN "error" ELSE "ok")>>)

\* The elements of a sequence.
Range(seq) == {seq[k] : k \in 1..Len(seq)}

\* What loading the company of a matched membership can give: the company, an
\* error, or no associated company.
EnrichOutcomes == {"ok", "error", "none"}

\* The company memberships among the memberships matched by the two queries.
CompanyMemberships(matched) ==
    SelectSeq(matched, LAMBDA id : MemberRecord(id).memberType = "Company")

\* The enrichment loop of getExpiringCompanyMemberships: a membership whose
\* company cannot be loaded, or that has no company, is left out of the
\* result (the individual memberships of `matched` go through unchanged).
enriched(matched, outcome) ==
    SelectSeq(matched, LAMBDA id : id \in DOMAIN outcome => outcome[id] = "ok")

\* What the enrichment loop can meet on a list of matched memberships under
\* an environment: faults are drawn in the production environment, for lists
\* shorter than MaxMembers.
Enrichments(matched, e) ==
    LET companies == Range(CompanyMemberships(matched))
    IN  IF Len(matched) < MaxMembers /\ e = ProdEnv
        THEN [companies -> EnrichOutcomes]
        ELSE {[id \in companies |-> "ok"]}

\* The calls of the enrichment loop, one per matched company membership.
enrichmentCalls(matched, outcome) ==
    LET allMemberships == CompanyMemberships(matched)
    IN  [k \in 1..Len(allMemberships) |->
            [Call("crm", "getCompanyOfMembership", Run, outcome[allMemberships[k]])
                EXCEPT !.membership = allMemberships[k]]]

\* 1. DATA RETRIEVAL, the two limits and the empty-list return.
DataRetrieval ==
    /\ pc = "retrieve"
    /\ \E outcome \in {"ok", "clientError", "companiesError", "individualsError"} :
          IF outcome # "ok"
          THEN /\ Critical(retrievalCalls(outcome, <<>>), outcome)
               /\ UNCHANGED <<allMembers, faults>>
          ELSE \E matched \in MemberListsIn(env) :
               \E loaded \in Enrichments(matched, env) :
                  LET retrieved == enriched(matched, loaded)
                      limited == applyLimit(applyLimit(retrieved, testLimit), fullTestLimit)
                      f == Cardinality({id \in DOMAIN loaded : loaded[id] # "ok"})
                  IN  /\ f <= MaxFaults
                      /\ faults' = f
                      /\ allMembers' = limited
                      /\ IF Len(limited) = 0
                         THEN Return("No memberships to process.")
                         ELSE pc' = "state" /\ UNCHANGED response
                      /\ calls' = calls \o retrievalCalls(outcome, enrichmentCalls(matched, loaded))
    /\ UNCHANGED <<env, startState, event, runState, membersToProcess, idx, processedMemberIds,
                   processedInvoices, failedInvoices, pin, pout>>

\* STATE MANAGEMENT: clear or read the run state, filter the members that are
\* already processed, and return early when none is left.
StateManagement ==
    /\ pc = "state"
    /\ \E s3 \in {"ok", "error"}, put \in {"ok", "error"} :
          LET op == IF clearState THEN "deleteObject" ELSE "getObject"
              read == IF useStateTracking
                      THEN <<Call("s3", op, Run, IF s3 = "ok" THEN "state" ELSE "state-failed")>>
                      ELSE <<>>
              ids == IF useStateTracking /\ ~clearState
                     THEN getProcessingState(runState) ELSE <<>>
              cleared == IF useStateTracking /\ clearState
                         THEN clearProcessingState(runState) ELSE runState
              left == filterProcessed(allMembers, ids)
              complete == stateData(ids, [totalMembers |-> Len(allMembers), isComplete |-> TRUE])
          IN  /\ (~useStateTracking => s3 = "ok")
              /\ ((s3 = "error" \/ Len(left) > 0 \/ ~useStateTracking) => put = "ok")
              /\ IF s3 = "error"
                 THEN /\ Critical(read, "state")
                      /\ UNCHANGED <<runState, membersToProcess, processedMemberIds>>
                 ELSE IF Len(left) = 0
                 THEN /\ membersToProcess' = left
                      /\ processedMemberIds' = ids
                      /\ IF ~useStateTracking
                         THEN /\ Return("All members already processed.")
                              /\ runState' = cleared
                              /\ calls' = calls \o read
                         ELSE IF put = "error"
                         THEN /\ Critical(read \o <<Call("s3", "putObject", Run, "state-failed")>>,
                                          "state")
                              /\ runState' = cleared
                         ELSE /\ Return("All members already processed.")
                              /\ runState' = complete
                              /\ calls' = calls \o read \o <<Call("s3", "putObject", Run, "state")>>
                 ELSE /\ membersToProcess' = left
                      /\ processedMemberIds' = ids
                      /\ runState' = cleared
                      /\ calls' = calls \o read
                      /\ pc' = "loop"
                      /\ UNCHANGED response
    /\ idx' = 1
    /\ UNCHANGED <<env, startState, event, allMembers, processedInvoices, failedInvoices, faults, pin, pout>>

\* 3. FINAL REPORTING, the final state update and the return of the summary.
FinalReporting ==
    /\ pc = "report"
    /\ \E report \in {"ok", "error"}, mail \in {"ok", "error"}, put \in {"ok", "error"} :
          LET sendsMail == LoadConfig(env).ENABLE_REPORT_EMAIL = "true"
              putsState == useStateTracking /\ Len(processedInvoices) > 0
              reportCall == Call("s3", "putObject", Run,
                                 IF report = "ok" THEN "report" ELSE "report-failed")
              mailCall == IF sendsMail
                          THEN <<Call("mail", "sendReportEmail", Run, mail)>> ELSE <<>>
              final == stateData(processedMemberIds,
                                 [totalMembers |-> Len(allMembers),
                                  isComplete |-> Len(processedMemberIds) >= Len(allMembers)])
          IN  /\ (report = "error" => mail = "ok" /\ put = "ok")
              /\ ((mail = "error" \/ ~putsState) => put = "ok")
              /\ (~sendsMail => mail = "ok")
              /\ IF report = "error"
                 THEN Critical(<<reportCall>>, "report") /\ UNCHANGED runState
                 ELSE IF mail = "error"
                 THEN Critical(<<reportCall>> \o mailCall, "mail") /\ UNCHANGED runState
                 ELSE IF putsState /\ put = "error"
                 THEN /\ Critical(<<reportCall>> \o mailCall
                                  \o <<Call("s3", "putObject", Run, "state-failed")>>, "state")
                      /\ UNCHANGED runState
                 ELSE /\ Return("HubSpot Invoicing complete.")
                      /\ runState' = IF putsState THEN final ELSE runState
                      /\ calls' = calls \o <<reportCall>> \o mailCall \o
                                  (IF putsState
                                   THEN <<Call("s3", "putObject", Run, "state")>> ELSE <<>>)
    /\ UNCHANGED <<env, startState, event, allMembers, membersToProcess, idx, processedMemberIds,
                   processedInvoices, failedInvoices, faults, pin, pout>>

(***************************************************************************)
(* The batch handler: the member loop                                      *)
(***************************************************************************)
\* Readings of context.getRemainingTimeInMillis() at the head of the loop.
TimeReadings == {TimeFloor - 1, TimeFloor}

\* Variant: the loop stops only below the floor less one millisecond.
belowTimeFloorLessOne(timeRemaining) == timeRemaining < TimeFloor - 1

\* if (timeRemaining < 30000)
belowTimeFloor(timeRemaining) == timeRemaining < TimeFloor

\* The reading of the remaining time at the head of one pass of the loop.
timeReading(id, timeRemaining) ==
    [Call("context", "getRemainingTimeInMillis", id, "read") EXCEPT !.amount = timeRemaining]

\* Outcomes of getPrimaryContact for a company.
ContactOutcomes == {"found", "none", "error"}

\* What the CRM search behind the duplicate check can answer: an error, or
\* the invoices the CRM holds (of this contact or of another one).
SearchOutcomes(contactId) ==
    {[error |-> TRUE, invoices |-> <<>>], [error |-> FALSE, invoices |-> <<>>]}
    \cup {[error |-> FALSE,
           invoices |-> <<[id |-> "existing", status |-> st, contactId |-> contactId]>>] :
             st \in openStatuses \cup {"PAID"}}
    \cup {[error |-> FALSE,
           invoices |-> <<[id |-> "existing", status |-> "SENT",
                           contactId |-> <<"contact", "other">>]>>]}

\* The faults one invocation meets stay within MaxFaults, and within one for a
\* list longer than MaxMembers.
WithinBudget(f) == f <= MaxFaults /\ (Len(allMembers) > MaxMembers => f <= 1)

\* The end of one pass of the loop body: the rows pushed, the calls made, and
\* the throttle (skipped by `continue`).
EndIteration(id, succ, fail, made, ids, stored, f, throttled) ==
    /\ processedInvoices' = processedInvoices \o succ
    /\ failedInvoices' = failedInvoices \o fail
    /\ calls' = calls \o made \o
                (IF throttled THEN <<Call("timer", "sleep", id, "ThrottleMs")>> ELSE <<>>)
    /\ processedMemberIds' = ids
    /\ runState' = stored
    /\ faults' = f
    /\ idx' = idx + 1
    /\ pc' = IF idx + 1 > Len(membersToProcess) THEN "report" ELSE "loop"
    /\ UNCHANGED <<env, startState, event, allMembers, membersToProcess, response, pin, pout>>

\* Variant: the error of a member leaves the loop and reaches the handler's
\* outer catch block.
rethrowMemberError(id, reason, made, succ, ids, stored, f) ==
    /\ Critical(made, reason)
    /\ processedInvoices' = processedInvoices \o succ
    /\ processedMemberIds' = ids
    /\ runState' = stored
    /\ faults' = f
    /\ UNCHANGED <<env, startState, event, allMembers, membersToProcess, idx, failedInvoices, pin, pout>>

\* catch (memberError): the failure row is pushed and the loop goes on.
catchMemberError(id, reason, made, succ, ids, stored, f) ==
    EndIteration(id, succ, <<[id |-> id, reason |-> reason]>>, made, ids, stored, f, TRUE)

\* H. UPDATE COMPANY DUES and I. BOOK-KEEPING
BookKeeping(it) ==
    LET updatesDues == it.member.memberType = "Company" /\ ~skipCrmWrites
        row == [id |-> it.id, type |-> it.member.memberType, invoiceId |-> it.invoiceId,
                invoiceAmount |-> it.priceResult.totalPrice, pdfLink |-> it.pdfLink,
                paymentLink |-> it.paymentLink]
        ids == IF useStateTracking THEN Append(processedMemberIds, it.id)
               ELSE processedMemberIds
        persists == useStateTracking /\ (Len(processedInvoices) + 1) % PersistEvery = 0
        snapshot == stateData(ids, [totalMembers |-> Len(allMembers),
                                    isComplete |-> Len(ids) >= Len(allMembers)])
    IN  \E dues \in {"ok", "error"}, put \in {"ok", "error"} :
           LET f == it.f + (IF dues = "error" THEN 1 ELSE 0) + (IF put = "error" THEN 1 ELSE 0)
               made == it.made \o
                       (IF updatesDues
                        THEN <<[Call("crm", "updateCompanyMembershipDues", it.id, dues)
                                  EXCEPT !.amount = it.priceResult.totalPrice]>>
                        ELSE <<>>)
           IN  /\ (~updatesDues => dues = "ok")
               /\ (~persists => put = "ok")
               /\ WithinBudget(f)
               /\ IF ~persists
                  THEN EndIteration(it.id, <<row>>, <<>>, made, ids, runState, f, TRUE)
                  ELSE IF put = "ok"
                  THEN EndIteration(it.id, <<row>>, <<>>,
                                    made \o <<Call("s3", "putObject", it.id, "state")>>,
                                    ids, snapshot, f, TRUE)
                  ELSE catchMemberError(it.id, "storeProcessingState",
                                        made \o <<Call("s3", "putObject", it.id, "state-failed")>>,
                                        <<row>>, ids, runState, f)

\* G. STORE PDF IN S3
StoreStep(it) ==
    IF isDryRun
    THEN BookKeeping([it EXCEPT !.pdfLink = "s3://fake-bucket-for-dry-run"])
    ELSE \E store \in {"ok", "error"} :
            LET f == it.f + (IF store = "error" THEN 1 ELSE 0)
            IN  /\ WithinBudget(f)
                /\ IF store = "error"
                   THEN catchMemberError(it.id, "storePdfInvoice",
                                         it.made \o <<Call("s3", "putObject", it.id, "pdf-failed")>>,
                                         <<>>, processedMemberIds, runState, f)
                   ELSE BookKeeping([it EXCEPT
                            !.pdfLink = "s3://bucket",
                            !.f = f,
                            !.made = it.made \o <<Call("s3", "putObject", it.id, "pdf")>>])

\* E. FETCH PAYMENT LINK AND GENERATE QR CODE and F. PDF GENERATION.  The due
\* date helper that step F takes from the invoices module, the QR code and the
\* PDF generator can each throw: the step completes or throws.
PdfStep(it) ==
    \E link \in {"link", "null"}, render \in {"ok", "error"} :
       LET fetches == ~isDryRun /\ testLimit = 0
           f == it.f + (IF link = "null" THEN 1 ELSE 0) + (IF render = "error" THEN 1 ELSE 0)
           made == it.made \o
                   (IF fetches THEN <<Call("crm", "getInvoicePaymentLink", it.id, link)>>
                    ELSE <<>>)
       IN  /\ (~fetches => link = "link")
           /\ WithinBudget(f)
           /\ IF render = "error"
              THEN catchMemberError(it.id, "generatePdf",
                                    made \o <<Call("pdf", "generatePdf", it.id, "failed")>>,
                                    <<>>, processedMemberIds, runState, f)
              ELSE StoreStep([it EXCEPT
                       !.paymentLink = link,
                       !.f = f,
                       !.made = made \o <<Call("pdf", "generatePdf", it.id, "rendered")>>])

\* D. CREATE HUBSPOT INVOICE RECORD
CreateStep(it) ==
    IF skipCrmWrites
    THEN PdfStep([it EXCEPT !.invoiceId = "fake-invoice-id-test-run"])
    ELSE LET invoiceData == [contactId |-> it.contactId, companyId |-> it.companyId,
                             invoiceAmount |-> it.priceResult.totalPrice,
                             lineItems |-> it.priceResult.lineItems,
                             pdfLink |-> "", keepDraft |-> keepDraft]
         IN  \E api \in CreateApiOutcomes :
                LET result == createInvoice(LoadConfig(env), invoiceData, api)
                    f == it.f + (IF api = "ok" THEN 0 ELSE 1)
                    made == it.made \o
                            <<[Call("crm", "createInvoice", it.id, api) EXCEPT
                                  !.amount = invoiceData.invoiceAmount,
                                  !.lineItems = invoiceData.lineItems,
                                  !.keepDraft = invoiceData.keepDraft,
                                  !.invoice = result.invoice]>>
                IN  /\ (api = "companyAssociationError" => it.companyId # NullId)
                    /\ WithinBudget(f)
                    /\ IF result.ok
                       THEN PdfStep([it EXCEPT !.invoiceId = "created", !.f = f, !.made = made])
                       ELSE catchMemberError(it.id, result.error, made, <<>>,
                                             processedMemberIds, runState, f)

\* C. PRICE CALCULATION
PriceStep(it) ==
    LET priceResult == priceCalculation(LoadConfig(env), it.member.memberType,
                                        Properties(it.member))
    IN  IF priceResult.ok
        THEN CreateStep([it EXCEPT !.priceResult = priceResult])
        ELSE catchMemberError(it.id, priceResult.error, it.made, <<>>,
                              processedMemberIds, runState, it.f)

\* Variant: only an invoice that was sent counts as a duplicate.
skipsMemberWhenSent(existingInvoice) == existingInvoice.status = "SENT"

\* if (existingInvoice): the member is skipped.
skipsMember(existingInvoice) == existingInvoice # NoInvoice

\* B. DUPLICATE CHECK
DuplicateCheck(it) ==
    \E search \in SearchOutcomes(it.contactId) :
       LET existingInvoice == findExistingOpenInvoice(NullId, it.contactId, search)
           f == it.f + (IF search.error \/ search.invoices # <<>> THEN 1 ELSE 0)
           made == it.made \o
                   <<[Call("crm", "doSearch", it.id,
                           IF search.error THEN "error" ELSE "answered")
                        EXCEPT !.invoice.status = existingInvoice.status,
                               !.owner = existingInvoice.contactId]>>
       IN  /\ WithinBudget(f)
           /\ IF skipsMember(existingInvoice)
              THEN EndIteration(it.id, <<>>, <<[id |-> it.id, reason |-> "Open invoice"]>>,
                                made, processedMemberIds, runState, f, FALSE)
              ELSE PriceStep([it EXCEPT !.f = f, !.made = made])

\* One pass of the member loop for the member at idx: A. standardize member
\* data (with the primary contact of a company), then steps B to I.
ProcessMember ==
    /\ pc = "loop"
    /\ idx <= Len(membersToProcess)
    /\ \E timeRemaining \in TimeReadings :
       /\ ~belowTimeFloor(timeRemaining)
       /\ LET id == membersToProcess[idx]
              member == MemberRecord(id)
              it == [id |-> id, member |-> member, contactId |-> id, companyId |-> NullId,
                     made |-> <<timeReading(id, timeRemaining)>>, f |-> faults,
                     priceResult |-> Thrown("none"),
                     invoiceId |-> "none", paymentLink |-> "none", pdfLink |-> "none"]
          IN  IF member.memberType = "Company"
              THEN \E contact \in ContactOutcomes :
                   LET f == faults + (IF contact = "found" THEN 0 ELSE 1)
                       made == it.made \o <<Call("crm", "getPrimaryContact", id, contact)>>
                   IN  /\ WithinBudget(f)
                       /\ IF contact = "error"
                          THEN catchMemberError(id, "getPrimaryContact", made, <<>>,
                                                processedMemberIds, runState, f)
                          ELSE IF contact = "none"
                          THEN catchMemberError(id, "No primary contact found", made, <<>>,
                                                processedMemberIds, runState, f)
                          ELSE DuplicateCheck([it EXCEPT
                                   !.contactId = <<"contact", "primary", id>>,
                                   !.companyId = id, !.f = f, !.made = made])
              ELSE DuplicateCheck(it)

\* The loop stops when less than the floor of execution time is left.
TimeoutBreak ==
    /\ pc = "loop"
    /\ idx <= Len(membersToProcess)
    /\ \E timeRemaining \in TimeReadings :
          /\ belowTimeFloor(timeRemaining)
          /\ calls' = Append(calls, timeReading(membersToProcess[idx], timeRemaining))
    /\ pc' = "report"
    /\ UNCHANGED <<env, startState, event, runState, allMembers, membersToProcess, idx,
                   processedMemberIds, processedInvoices, failedInvoices, faults,
                   response, pin, pout>>

Next ==
    \/ Invoke
    \/ DataRetrieval
    \/ StateManagement
    \/ ProcessMember
    \/ TimeoutBreak
    \/ FinalReporting

Spec == Init /\ [][Next]_vars

(***************************************************************************)
(* Properties of the pricing functions                                     *)
(***************************************************************************)
\* The territory a spelling of the input pools names.
TerritoryOf(name) ==
    CASE name \in {California, CaCode, CaPadded, CaliforniaPadded} -> "California"
      [] name \in {Nevada, NvLower}                                -> "Nevada"
      [] name \in {Arizona}                                        -> "Arizona"
      [] name \in {Ontario, OnCode}                                -> "Ontario"
      [] name \in {Mexico, MexicoUpper}                            -> "Mexico"
      [] name \in {Blank}                                          -> "blank"
      [] OTHER                                                     -> "none"

\* The entries of a territory list that claim a territory other than the home
\* territory (empty entries claim nothing; every occurrence counts).
BillableEntries(entries, home) ==
    {i \in 1..Len(entries) :
        entries[i] # NoArg /\ TerritoryOf(entries[i]) # TerritoryOf(home)}

BillableTerritoryCount(in) ==
    Cardinality(BillableEntries(in.us, in.home))
    + Cardinality(BillableEntries(in.can, in.home))
    + Cardinality(BillableEntries(in.nonNa, in.home))

\* The fees calculateDistributorPrice works with.
BaseFee == LoadConfig(env).DISTRIBUTOR_BASE_FEE

PerTerritoryFee == OrDefault(ConfigGet(LoadConfig(env), "DISTRIBUTOR_PER_TERRITORY_FEE"), 70 * Scale)

TerritoryItems(result) ==
    SelectSeq(result.lineItems, LAMBDA item : item.name = "Additional Territory Listings")

ListOf(in, property) ==
    CASE property = "distributor_us_states"          -> in.us
      [] property = "distributor_canadian_provinces" -> in.can
      [] OTHER                                       -> in.nonNa

RECURSIVE SumLineItems(_)
SumLineItems(items) ==
    IF items = <<>> THEN 0
    ELSE items[1].quantity * items[1].price + SumLineItems(Tail(items))

\* C6: every price result that a resolver returns, and every price result that
\* leaves step C of the handler (after the description enrichment) on its way
\* to invoice creation, has a total equal to the sum over its line items of
\* quantity * unit price.
C6_TotalIsSumOfLineItems ==
    (pout.fn \in {"calculateDistributorPrice", "calculateManufacturerPrice",
                  "calculateServiceProviderPrice", "calculateIndividualPrice",
                  "priceCalculation"}
     /\ pout.result.ok)
        => pout.result.totalPrice = SumLineItems(pout.result.lineItems)

\* Step C returned a Distributor result whose territory line item was enriched.
C6_Witness ==
    /\ pout.fn = "priceCalculation"
    /\ pout.result.ok
    /\ Len(pout.result.lineItems) = 3
    /\ pout.result.lineItems[3].description.text = "For territories: (home state excluded)"
    /\ pout.result.lineItems[3].quantity = 2
    /\ pout.result.totalPrice = SumLineItems(pout.result.lineItems)
    /\ pout.result.totalPrice > BaseFee

\* The default fee the configuration holds for Manufacturer memberships.
ConfiguredDefaultFee ==
    IF env.MANUFACTURER_DEFAULT_FEE = Unset THEN 1500 * Scale
    ELSE env.MANUFACTURER_DEFAULT_FEE

\* What calculateManufacturerPrice does when the label is absent, null or blank.
ManufacturerFallback ==
    pin.label.form \in {"absent", "null", "blank"} =>
        /\ pout.result.ok
        /\ pout.result.totalPrice = ConfiguredDefaultFee
        /\ pout.result.warnings # {}

FullRun == ~event.dry_run /\ event.pdf_test_limit = 0 /\ event.full_test_limit = 0

TypeOK ==
    /\ pc \in {"idle", "retrieve", "state", "loop", "report", "done", "pricing", "priced"}
    /\ faults \in 0..MaxFaults
    /\ idx \in 1..(Len(membersToProcess) + 1)

Ids(rows) == {rows[k].id : k \in 1..Len(rows)}

\* A call that renders or stores an invoice PDF, or creates an invoice.
IsInvoiceWork(c) ==
    \/ c.op \in {"createInvoice", "generatePdf"}
    \/ (c.api = "s3" /\ c.op = "putObject" /\ c.detail \in {"pdf", "pdf-failed"})

\* C1: in every run mode, a membership whose open-invoice check returned an
\* existing invoice (status SENT, DRAFT, PROCESSING or OVERDUE) gets no
\* createInvoice call, and no PDF is rendered or stored for it.
C1_DuplicateGuard ==
    \A i \in 1..Len(calls) :
        (calls[i].op = "doSearch" /\ calls[i].invoice.status \in openStatuses) =>
            \A j \in 1..Len(calls) :
                calls[j].entity = calls[i].entity => ~IsInvoiceWork(calls[j])

\* A full run met an overdue invoice for its first member, recorded the skip,
\* and went on to create the invoice of the next member.
C1_Witness ==
    /\ pc = "done"
    /\ FullRun
    /\ Len(membersToProcess) = 2
    /\ \E i \in 1..Len(calls) :
          /\ calls[i].op = "doSearch"
          /\ calls[i].invoice.status = "OVERDUE"
          /\ calls[i].entity = membersToProcess[1]
    /\ membersToProcess[1] \in Ids(failedInvoices)
    /\ \E j \in 1..Len(calls) :
          calls[j].op = "createInvoice" /\ calls[j].entity = membersToProcess[2]

\* C2: in a full run without clear_state, a membership whose id the persisted
\* run state held when the invocation started gets no createInvoice call and
\* appears in neither the success rows nor the failure rows that the summary
\* counts.
C2_Resumability ==
    (pc # "idle" /\ FullRun /\ ~event.clear_state) =>
        \A k \in 1..Len(startState.processedMemberIds) :
            LET id == startState.processedMemberIds[k]
            IN  /\ \A j \in 1..Len(calls) :
                       calls[j].entity = id => calls[j].op # "createInvoice"
                /\ id \notin Ids(processedInvoices)
                /\ id \notin Ids(failedInvoices)
                /\ (pc = "done" /\ response.statusCode = 200) =>
                       /\ response.processed = Len(processedInvoices)
                       /\ response.failed = Len(failedInvoices)

\* The run state held the distributor; the run retrieved the distributor and
\* an individual, invoiced the individual only and reported one success.
C2_Witness ==
    /\ pc = "done"
    /\ FullRun /\ ~event.clear_state
    /\ startState.processedMemberIds = <<DistId>>
    /\ allMembers = <<DistId, IndividualId>>
    /\ membersToProcess = <<IndividualId>>
    /\ response.statusCode = 200
    /\ response.processed = 1
    /\ response.failed = 0

\* The causes that the handler's outer catch block can report for an error
\* raised outside the member loop.
RunLevelCauses == {"clientError", "companiesError", "individualsError", "state", "report", "mail"}

\* The members the loop has gone through.
Attempted == {membersToProcess[k] : k \in 1..(idx - 1)}

AllIds ==
    {DistId, BadLabelId, UnknownTypeId, IndividualId, ZeroLabelId, NoTypeId, IndividualTypeId}
    \cup {LongList[n] : n \in 1..Len(LongList)}

\* The result of step C for every membership under every environment.
PriceTable ==
    {[id |-> id, env |-> e,
      result |-> priceCalculation(LoadConfig(e), MemberRecord(id).memberType,
                                  Properties(MemberRecord(id)))] :
        id \in AllIds, e \in HandlerEnvs}

\* The result of step C for a membership.
PriceOf(id) == (CHOOSE r \in PriceTable : r.id = id /\ r.env = env).result

\* The amount step C computes for a membership.
ComputedAmount(id) == PriceOf(id).totalPrice

\* C8: with dry_run, createInvoice and updateCompanyMembershipDues are never
\* called, and every membership that was priced and rendered has a success
\* row with its computed amount, which the returned summary counts.
C8_DryRunNoCrmWrites ==
    event.dry_run =>
        /\ \A i \in 1..Len(calls) :
              calls[i].op \notin {"createInvoice", "updateCompanyMembershipDues"}
        /\ \A i \in 1..Len(calls) :
              (calls[i].op = "generatePdf" /\ calls[i].detail = "rendered") =>
                  \E k \in 1..Len(processedInvoices) :
                      /\ processedInvoices[k].id = calls[i].entity
                      /\ processedInvoices[k].invoiceAmount = ComputedAmount(calls[i].entity)
        /\ (pc = "done" /\ response.statusCode = 200) =>
               response.processed = Len(processedInvoices)

\* A dry run priced and rendered the distributor of scenario A and reported it.
C8_Witness ==
    /\ event.dry_run
    /\ pc = "done"
    /\ response.statusCode = 200
    /\ response.processed = 1
    /\ processedInvoices[1].id = DistId
    /\ processedInvoices[1].invoiceAmount = (929 + 2 * 70) * Scale
    /\ processedInvoices[1].pdfLink = "s3://fake-bucket-for-dry-run"

\* C9: with dry_run, the invocation makes no put and no delete against S3:
\* no invoice PDF, no report and no run-state object.
C9_DryRunNoStorageWrites ==
    event.dry_run =>
        \A i \in 1..Len(calls) :
            ~(/\ calls[i].api = "s3"
              /\ calls[i].op \in {"putObject", "deleteObject"}
              /\ calls[i].detail \in {"pdf", "report", "state"})

\* C10: with keep_draft, every invoice that createInvoice creates stays in
\* draft status: no update sets it to open.
C10_KeepDraftStaysDraft ==
    event.keep_draft =>
        \A i \in 1..Len(calls) :
            calls[i].op = "createInvoice" => calls[i].invoice.status # "open"

\* C11: when the open-invoice search fails with an error, the guard answers
\* "no open invoice": the membership gets no "Open invoice" failure row and
\* goes on to step C and, if a price is computed, to the invoice creation
\* (the PDF generation where the run mode skips CRM writes).
C11_GuardFailsOpen ==
    \A i \in 1..Len(calls) :
        (calls[i].op = "doSearch" /\ calls[i].detail = "error") =>
            LET id == calls[i].entity
            IN  /\ calls[i].invoice.status = "none"
                /\ \A k \in 1..Len(failedInvoices) :
                       failedInvoices[k].id = id => failedInvoices[k].reason # "Open invoice"
                /\ IF PriceOf(id).ok
                   THEN /\ i < Len(calls)
                        /\ calls[i + 1].entity = id
                        /\ calls[i + 1].op = IF skipCrmWrites THEN "generatePdf"
                                             ELSE "createInvoice"
                   ELSE \E k \in 1..Len(failedInvoices) :
                           failedInvoices[k] = [id |-> id, reason |-> PriceOf(id).error]

\* The search for the distributor's open invoices failed, and the distributor
\* was invoiced all the same.
C11_Witness ==
    /\ pc = "done"
    /\ FullRun
    /\ \E i \in 1..Len(calls) :
          /\ calls[i].op = "doSearch" /\ calls[i].detail = "error"
          /\ calls[i].entity = DistId
    /\ \E j \in 1..Len(calls) :
          /\ calls[j].op = "createInvoice" /\ calls[j].entity = DistId
          /\ calls[j].invoice.status = "open"
    /\ DistId \in Ids(processedInvoices)

\* The billing contact of a membership: the primary contact of a company, the
\* contact itself for an individual.
BillingContact(id) ==
    IF MemberRecord(id).memberType = "Company" THEN <<"contact", "primary", id>> ELSE id

\* C12: a membership is skipped by the open-invoice check only when the
\* invoice that the check found is in an open status and is associated with
\* the membership's own billing contact.
C12_GuardScopedToContact ==
    \A k \in 1..Len(failedInvoices) :
        failedInvoices[k].reason = "Open invoice" =>
            \E i \in 1..Len(calls) :
                /\ calls[i].op = "doSearch"
                /\ calls[i].entity = failedInvoices[k].id
                /\ calls[i].invoice.status \in openStatuses
                /\ calls[i].owner = BillingContact(failedInvoices[k].id)

\* The ids held by the run-state object that S3 stores for the run date.
PersistedIds == {runState.processedMemberIds[k] : k \in 1..Len(runState.processedMemberIds)}

\* C13: whenever the invocation of a full run has returned, the persisted run
\* state holds the id of every membership invoiced during the invocation.
C13_RunStatePersistedAtReturn ==
    (pc = "done" /\ FullRun) => Ids(processedInvoices) \subseteq PersistedIds

\* The memberships from the position of the loop onwards.
NotAttempted == {membersToProcess[k] : k \in idx..Len(membersToProcess)}

C15_PartialSuccessReturnsSuccess ==
    (pc = "done" /\ Len(processedInvoices) > 0) =>
        /\ response.statusCode = 200
        /\ response.processed = Len(processedInvoices)
        /\ response.failed = Len(failedInvoices)

\* C16: when a required setting is missing, the run is aborted at startup:
\* no membership is processed (no call for a membership, no success or failure
\* row), and the invocation ends with the failure status.
C16_MissingSettingAbortsAtStartup ==
    validateInvoiceConfig(LoadConfig(env)) # {} =>
        /\ \A i \in 1..Len(calls) : calls[i].entity = Run
        /\ processedInvoices = <<>>
        /\ failedInvoices = <<>>
        /\ pc = "done" => response.statusCode = 500

\* A membership query of 1. DATA RETRIEVAL failed.
RetrievalFailed ==
    \E i \in 1..Len(calls) :
        /\ calls[i].op \in {"getExpiringCompanyMemberships", "getExpiringIndividualMemberships"}
        /\ calls[i].detail = "error"

\* Error notifications are switched on and the mail settings they need are set.
NotificationsConfigured ==
    LET cfg == LoadConfig(env)
    IN  /\ cfg.ENABLE_ERROR_NOTIFICATIONS = "true"
        /\ cfg.MAILGUN_API_KEY # "undefined"
        /\ cfg.MAILGUN_DOMAIN # "undefined"
        /\ cfg.MAILGUN_ERROR_RECIPIENT_EMAIL # "undefined"

NoInvoiceCreated == \A j \in 1..Len(calls) : calls[j].op # "createInvoice"

NotificationSent == \E j \in 1..Len(calls) : calls[j].op = "sendErrorNotification"

\* C17 (as amended): when the company or the individual membership query
\* fails, the invocation creates no invoice and returns status 500, and it
\* sends the operator an error notification when error notifications are
\* enabled and the mail settings are set.
C17_RetrievalFailureWhenConfigured ==
    RetrievalFailed =>
        /\ pc = "done"
        /\ NoInvoiceCreated
        /\ response.statusCode = 500
        /\ response.error \in {"companiesError", "individualsError"}
        /\ NotificationsConfigured => NotificationSent

\* C17 (as claimed): when the company or the individual membership query
\* fails, the invocation creates no invoice, sends the operator an error
\* notification and returns status 500.
C17_RetrievalFailureAlwaysNotifies ==
    RetrievalFailed =>
        /\ NoInvoiceCreated
        /\ NotificationSent
        /\ response.statusCode = 500

\* The individual membership query failed after the company query had
\* answered; the operator was notified and 500 was returned.
C17_Witness ==
    /\ RetrievalFailed
    /\ response.error = "individualsError"
    /\ response.statusCode = 500
    /\ NotificationsConfigured
    /\ calls[Len(calls)].op = "sendErrorNotification"
    /\ calls[Len(calls)].detail = "individualsError"

\* The three membership types of a company that have a price.
KnownCompanyTypes == {"Distributor", "Manufacturer", "Service Provider"}

\* A company whose membership type is none of the three, or is missing.
UnknownCompanyType(id) ==
    /\ MemberRecord(id).memberType = "Company"
    /\ MemberRecord(id).membership_type \notin KnownCompanyTypes

\* The open-invoice check of a membership answered that no invoice is open.
PassedDuplicateCheck(id) ==
    \E i \in 1..Len(calls) :
        calls[i].op = "doSearch" /\ calls[i].entity = id /\ calls[i].invoice.status = "none"

\* C18: a company whose membership type is not Distributor, Manufacturer or
\* Service Provider (a missing value included) that reaches step C is
\* recorded as failed with "Unknown membership type"; no invoice is created
\* and no PDF is rendered or stored for it, and it has no success row.
C18_UnknownCompanyTypeRejected ==
    \A k \in 1..(idx - 1) :
        LET id == membersToProcess[k]
        IN  UnknownCompanyType(id) =>
                /\ \A j \in 1..Len(calls) : calls[j].entity = id => ~IsInvoiceWork(calls[j])
                /\ id \notin Ids(processedInvoices)
                /\ PassedDuplicateCheck(id) =>
                       \E r \in 1..Len(failedInvoices) :
                           failedInvoices[r] = [id |-> id, reason |-> "Unknown membership type"]

\* A manufacturer whose label is present but has no amount that parses to a
\* positive number.
BadManufacturerLabel(id) ==
    LET label == MemberRecord(id).label
    IN  /\ MemberRecord(id).memberType = "Company"
        /\ MemberRecord(id).membership_type = "Manufacturer"
        /\ \/ label.form = "other"
           \/ label.form = "dollar" /\ label.amount <= 0

\* C19: for a manufacturer whose label is present but unparsable or not
\* positive, the resolver throws "Invalid membership level price"; the
\* membership gets no invoice, no PDF and no success row; once it has reached
\* step C it has a failure row with that error; and the loop goes on to the
\* next membership.
C19_BadLabelFailsEntityOnly ==
    \A k \in 1..(idx - 1) :
        LET id == membersToProcess[k]
        IN  BadManufacturerLabel(id) =>
                /\ PriceOf(id) = Thrown("Invalid membership level price")
                /\ \A j \in 1..Len(calls) : calls[j].entity = id => ~IsInvoiceWork(calls[j])
                /\ id \notin Ids(processedInvoices)
                /\ PassedDuplicateCheck(id) =>
                       \E r \in 1..Len(failedInvoices) :
                           failedInvoices[r] =
                               [id |-> id, reason |-> "Invalid membership level price"]
                /\ k < Len(membersToProcess) =>
                       \/ pc = "loop" /\ idx = k + 1
                       \/ \E j \in 1..Len(calls) :
                              /\ calls[j].op = "getRemainingTimeInMillis"
                              /\ calls[j].entity = membersToProcess[k + 1]

\* A manufacturer labelled "$0 (<$5M)" failed in step C, the individual after
\* it was invoiced, and the invocation returned one success and one failure.
C19_Witness ==
    /\ pc = "done"
    /\ membersToProcess = <<ZeroLabelId, IndividualId>>
    /\ failedInvoices = <<[id |-> ZeroLabelId, reason |-> "Invalid membership level price"]>>
    /\ Ids(processedInvoices) = {IndividualId}
    /\ \E j \in 1..Len(calls) :
          calls[j].op = "createInvoice" /\ calls[j].entity = IndividualId
    /\ response.statusCode = 200
    /\ response.processed = 1 /\ response.failed = 1

\* A call that reads, writes or deletes the run-state object in S3.
IsRunStateAccess(c) == c.api = "s3" /\ c.detail \in {"state", "state-failed"}

\* C20: in an invocation with dry_run, pdf_test_limit or full_test_limit set,
\* the run-state object is neither read, written nor deleted, it stays as it
\* was when the invocation started, and every membership retrieved (after the
\* limits) is handed to the loop, whatever ids the run state holds.
C20_RunStateOnlyInFullRuns ==
    (pc # "idle" /\ ~FullRun) =>
        /\ \A i \in 1..Len(calls) : ~IsRunStateAccess(calls[i])
        /\ runState = startState
        /\ response.message # "All members already processed."
        /\ (pc \in {"loop", "report", "done"} /\ allMembers # <<>>) =>
               membersToProcess = allMembers

\* A limited full run with clear_state met a run state that already held the
\* distributor, left the state as it was and invoiced the distributor.
C20_Witness ==
    /\ pc = "done"
    /\ event.full_test_limit = 1 /\ ~event.dry_run /\ event.pdf_test_limit = 0
    /\ event.clear_state
    /\ startState.processedMemberIds = <<DistId>>
    /\ runState = startState
    /\ membersToProcess = <<DistId>>
    /\ \E j \in 1..Len(calls) :
          calls[j].op = "createInvoice" /\ calls[j].entity = DistId
    /\ Ids(processedInvoices) = {DistId}
    /\ response.statusCode = 200

\* The invocation has gone through STATE MANAGEMENT into the member loop.
EnteredLoop == pc \in {"loop", "report", "done"} /\ membersToProcess # <<>>

Handled == {calls[i].entity : i \in 1..Len(calls)} \ {Run}

\* A call of the given operation and detail was made for the membership.
Made(id, op, detail) ==
    \E i \in 1..Len(calls) :
        calls[i].entity = id /\ calls[i].op = op /\ calls[i].detail = detail

\* The membership went through the loop, passed the open-invoice check and
\* was priced.
PassedPricing(id) == id \in Attempted /\ PassedDuplicateCheck(id) /\ PriceOf(id).ok

\* The membership has a failure row with the given reason.
FailedWith(id, reason) ==
    \E k \in 1..Len(failedInvoices) :
        failedInvoices[k].id = id /\ failedInvoices[k].reason = reason

C23_EnrichmentAgreesWithPricing ==
    (/\ pout.fn = "priceCalculation"
     /\ pin.memberType = "Company" /\ pin.membership_type = "Distributor"
     /\ pout.result.ok) =>
        LET names == billableTerritoryNames(Properties(pin))
            item  == TerritoryItems(pout.result)
        IN  Len(item) = 1 =>
               /\ item[1].description.text = "For territories: (home state excluded)"
               /\ item[1].description.arg = join(names, <<",", " ">>)
               /\ Len(names) = item[1].quantity

\* The per-territory fee that the DISTRIBUTOR_TERRITORY_FEE setting
\* configures (70 when unset).
ConfiguredTerritoryFee == LoadConfig(env).DISTRIBUTOR_TERRITORY_FEE

\* C24: the unit price of the additional-territory line item is the value
\* configured through DISTRIBUTOR_TERRITORY_FEE (70 when unset), and the
\* total is the base fee plus that value for each billable territory.
C24_TerritoryFeeFollowsSetting ==
    pout.fn = "calculateDistributorPrice" =>
        LET item == TerritoryItems(pout.result)
        IN  /\ \A k \in 1..Len(item) : item[k].price = ConfiguredTerritoryFee
            /\ pout.result.totalPrice
                   = BaseFee + BillableTerritoryCount(pin) * ConfiguredTerritoryFee

\* C25: wherever the calls of the invocation pass from one membership to the
\* next one, the last call made for the earlier membership is the throttle
\* delay, whether that membership succeeded, failed or was skipped by the
\* open-invoice check.
C25_ThrottleBetweenMembers ==
    \A i \in 1..(Len(calls) - 1) :
        (/\ calls[i].entity # Run /\ calls[i + 1].entity # Run
         /\ calls[i].entity # calls[i + 1].entity) =>
            calls[i].op = "sleep" /\ calls[i].detail = "ThrottleMs"

\* The ids that this invocation appended to processedMemberIds (the ids read
\* from the stored state were filtered out of membersToProcess).
AppendedIds ==
    {processedMemberIds[k] : k \in 1..Len(processedMemberIds)}
        \cap {membersToProcess[k] : k \in 1..Len(membersToProcess)}

\* A call of the given operation was made for the membership.
Called(id, op) == \E i \in 1..Len(calls) : calls[i].entity = id /\ calls[i].op = op

\* C26: an id is appended to processedMemberIds only after the invoice of
\* that membership was created, its PDF stored and, for a company, its dues
\* update attempted; and no membership with a failure row (failed, or
\* skipped by the open-invoice check) has its id appended.
C26_OnlyInvoicedIdsAppended ==
    \A id \in AppendedIds :
        /\ id \in Ids(processedInvoices)
        /\ Called(id, "createInvoice")
        /\ Made(id, "putObject", "pdf")
        /\ MemberRecord(id).memberType = "Company" => Called(id, "updateCompanyMembershipDues")
        /\ id \notin Ids(failedInvoices)

\* No two rows of the list carry the same id.
DistinctIds(rows) ==
    \A i, j \in 1..Len(rows) : rows[i].id = rows[j].id => i = j

\* C28: no id is in both the success list and the failure list, and no id is
\* twice in either list.
C28_OneOutcomePerMember ==
    /\ Ids(processedInvoices) \cap Ids(failedInvoices) = {}
    /\ DistinctIds(processedInvoices)
    /\ DistinctIds(failedInvoices)

\* C27: an invoice that createInvoice has set to open status has a contact
\* association and at least one line item associated with it.
C27_OpenInvoiceHasContactAndLineItem ==
    \A i \in 1..Len(calls) :
        (calls[i].op = "createInvoice" /\ calls[i].invoice.status = "open") =>
            calls[i].invoice.contact /\ calls[i].invoice.lineItems >= 1

\* The memberships matched by the expiring-membership queries: those whose
\* company the enrichment loop tried to load, and those that were retrieved.
Matched ==
    {calls[i].membership : i \in {j \in 1..Len(calls) : calls[j].op = "getCompanyOfMembership"}}
        \cup Range(allMembers)

\* Loading the company data of the membership raised an error.
EnrichmentFailed(id) ==
    \E i \in 1..Len(calls) :
        /\ calls[i].op = "getCompanyOfMembership"
        /\ calls[i].membership = id /\ calls[i].detail = "error"

\* The memberships that the filter on the stored run state left out.
AlreadyProcessed == Range(allMembers) \ Range(membersToProcess)

\* C30: when an invocation without test limits has returned normally, every
\* membership matched by the queries is in the success list, in the failure
\* list, skipped as already processed or left unattempted by the time-budget
\* stop, and a membership whose company data could not be loaded is in the
\* failure list.
C30_EveryMatchedMembershipAccounted ==
    (pc = "done" /\ response.statusCode = 200 /\ testLimit = 0 /\ fullTestLimit = 0) =>
        \A id \in Matched :
            /\ id \in Ids(processedInvoices) \cup Ids(failedInvoices)
                      \cup AlreadyProcessed \cup NotAttempted
            /\ EnrichmentFailed(id) => id \in Ids(failedInvoices)

(***************************************************************************)
(* Two invocations for the same period: the handler is invoked again after *)
(* an invocation in which an invoice creation failed                       *)
(***************************************************************************)
\* The position in calls at which the second invocation starts (0: there is
\* no second invocation yet).
SecondFrom ==
    LET marks == {i \in 1..Len(calls) : calls[i].op = "invoke"}
    IN  IF marks = {} THEN 0 ELSE CHOOSE i \in marks : TRUE

\* createInvoice threw for the membership in the first invocation.
CreateFailedEarlier(id) ==
    \E j \in 1..Len(calls) :
        /\ (SecondFrom = 0 \/ j < SecondFrom)
        /\ calls[j].op = "createInvoice" /\ calls[j].entity = id
        /\ calls[j].detail \notin {"ok", "productNotFound"}

\* The draft invoice that a failed createInvoice of the first invocation left
\* in the CRM for the membership, associated with its contact (STEP 1 creates
\* the draft, and no step removes it when a later step throws).
LeftoverDraft(id) ==
    \E j \in 1..Len(calls) :
        /\ j < SecondFrom
        /\ calls[j].op = "createInvoice" /\ calls[j].entity = id
        /\ calls[j].invoice.status = "draft" /\ calls[j].invoice.contact

\* The CRM answers the searches of the second invocation from what the first
\* one left: it can find an invoice only where a draft was left, and then it
\* is that draft.
SearchesReflectCrm ==
    \A i \in 1..Len(calls) :
        (SecondFrom # 0 /\ i > SecondFrom /\ calls[i].op = "doSearch") =>
            /\ calls[i].invoice.status \in {"none", "DRAFT"}
            /\ calls[i].invoice.status = "DRAFT" => LeftoverDraft(calls[i].entity)

\* Full runs in the production environment over the memberships of one
\* period, one membership at most.
RetryScope ==
    /\ pc # "idle" => FullRun
    /\ Len(allMembers) <= 1
    /\ SearchesReflectCrm

\* The handler is invoked a second time, after a full invocation that
\* returned normally and in which createInvoice failed.
Reinvoke ==
    /\ pc = "done" /\ SecondFrom = 0
    /\ FullRun /\ response.statusCode = 200
    /\ \E id \in Range(allMembers) : CreateFailedEarlier(id)
    /\ pc' = "idle"
    /\ event' = NoEvent
    /\ calls' = Append(calls, Call("lambda", "invoke", Run, "again"))
    /\ membersToProcess' = <<>>
    /\ idx' = 1
    /\ processedMemberIds' = <<>>
    /\ processedInvoices' = <<>>
    /\ failedInvoices' = <<>>
    /\ faults' = 0
    /\ response' = NoResponse
    /\ UNCHANGED <<env, startState, runState, allMembers, pin, pout>>

\* A step of the handler within the scope; the queries of the second
\* invocation match the memberships of the first.
RetryStep ==
    /\ Next
    /\ RetryScope'
    /\ (SecondFrom # 0 /\ pc = "retrieve" /\ pc' = "state") => allMembers' = allMembers

RetryInit == Init /\ env = ProdEnv

RetryNext == RetryStep \/ Reinvoke

RetrySpec == RetryInit /\ [][RetryNext]_vars

\* C29: in the full invocation that follows one in which createInvoice failed
\* for a membership (nothing else having happened to it in between), the
\* membership is not filtered out as already processed, and once its
\* open-invoice check is made, createInvoice is called for it again.
C29_FailedCreationIsRetried ==
    \A id \in Range(allMembers) :
        (SecondFrom # 0 /\ CreateFailedEarlier(id) /\ EnteredLoop) =>
            /\ id \in Range(membersToProcess)
            /\ (\E i \in 1..Len(calls) :
                    i > SecondFrom /\ calls[i].op = "doSearch" /\ calls[i].entity = id)
               => \E i \in 1..Len(calls) :
                     i > SecondFrom /\ calls[i].op = "createInvoice" /\ calls[i].entity = id
====
